---------------------------- MODULE Spec2Model ----------------------------
(***************************************************************************)
(* A model of the spacedevs client crate: URL building of the generic and  *)
(* typed clients, the schema manager (load, apply_schema,                  *)
(* build_query_string), the schema-assisted operations of RESTClient and   *)
(* the configuration-driven APIExecutor.                                   *)
(*                                                                         *)
(* Text is modelled as a sequence of one-character strings, so that        *)
(* trimming, joining and percent-encoding are computed character by        *)
(* character.  Names that the code only compares and copies (parameter     *)
(* names, table keys) are single elements of such a sequence.              *)
(***************************************************************************)
EXTENDS Integers, Sequences, FiniteSets, TLC

VARIABLES
    kind, base_url, built,          \* a client and its last build_url/get
    schemas, ret,                   \* a SchemaManager and its last call
    client, call,                   \* a RESTClient and its last operation
    executor, pc, idx, requests, output, outcome,  \* an APIExecutor run
    view, printed,                  \* a document on display and the lines
    document, page,                 \* a response body and its Paginated<T>
    database, step                  \* the database and the migration's step

vars == <<kind, base_url, built, schemas, ret, client, call,
          executor, pc, idx, requests, output, outcome,
          view, printed, document, page, database, step>>

urlVars == <<kind, base_url, built>>
smVars == <<schemas, ret>>
clVars == <<client, call>>
exVars == <<executor, pc, idx, requests, output, outcome>>
viewVars == <<view, printed>>
serdeVars == <<document, page>>
dbVars == <<database, step>>

\* The variables the client crate's four specifications leave alone.
offVars == <<viewVars, serdeVars, dbVars>>

\* The value of a variable that the specification at hand does not use.
Idle == "idle"

None == [some |-> FALSE]

\* No document is on display, none is deserialized, no migration runs.
OffIdle ==
    /\ view = Idle /\ printed = Idle
    /\ document = Idle /\ page = Idle
    /\ database = Idle /\ step = Idle

\* No client, schema manager or executor is in use.
CrateIdle ==
    /\ kind = Idle /\ base_url = Idle /\ built = Idle
    /\ schemas = Idle /\ ret = Idle
    /\ client = Idle /\ call = Idle
    /\ executor = Idle /\ pc = Idle /\ idx = Idle
    /\ requests = Idle /\ output = Idle /\ outcome = Idle

---------------------------------------------------------------------------
(* Bounds of the model.                                                    *)

\* Longest base URL and endpoint text drawn as an input.
MaxUrlLen == 3

\* Longest caller-supplied parameter value drawn as an input.
MaxValLen == 1

\* Most top-level entries of a configuration document.
MaxEntries == 2

\* Longest run of one-byte characters in a title drawn as an input.
MaxTitleLen == 40

\* Longest news_site drawn as an input.
MaxSiteLen == 21

\* Most elements of the results of a page drawn as an input.
MaxResults == 3

\* Most loads into one schema manager.
MaxLoads == 2

---------------------------------------------------------------------------
(* Text.                                                                   *)

RECURSIVE Strs(_, _)
\* Every text of at most n characters over the alphabet chars.
Strs(chars, n) ==
    IF n = 0 THEN {<<>>}
    ELSE LET shorter == Strs(chars, n - 1)
         IN shorter \cup {Append(s, c) : s \in shorter, c \in chars}

\* A plausible slip: only one trailing occurrence is removed (strip_suffix).
TrimOneEnd(s, c) ==
    IF Len(s) > 0 /\ s[Len(s)] = c THEN SubSeq(s, 1, Len(s) - 1) ELSE s

RECURSIVE TrimEndMatches(_, _)
\* str::trim_end_matches(c): drop the trailing c's one at a time.
TrimEndMatches(s, c) ==
    IF Len(s) > 0 /\ s[Len(s)] = c
    THEN TrimEndMatches(SubSeq(s, 1, Len(s) - 1), c)
    ELSE s

RECURSIVE TrimStartMatches(_, _)
\* str::trim_start_matches(c): drop the leading c's one at a time.
TrimStartMatches(s, c) ==
    IF Len(s) > 0 /\ s[1] = c
    THEN TrimStartMatches(Tail(s), c)
    ELSE s

\* The characters URLs are drawn from.
UrlChars == {"/", "a"}

UrlTexts == Strs(UrlChars, MaxUrlLen)

\* RESTClient::build_url: format!("{}/{}", base.trim_end_matches('/'),
\* endpoint.trim_start_matches('/')).
RestBuildUrl(base, endpoint) ==
    TrimEndMatches(base, "/") \o <<"/">> \o TrimStartMatches(endpoint, "/")

\* SpaceDevsClient::build_url and SpaceDevsDataClient::build_url:
\* format!("{}/{}", self.base_url, endpoint.trim_start_matches('/')).
TypedBuildUrl(base, endpoint) ==
    base \o <<"/">> \o TrimStartMatches(endpoint, "/")

---------------------------------------------------------------------------
(* Options and maps.                                                       *)

Some(v) == [some |-> TRUE, v |-> v]

\* The empty HashMap; HashMaps are functions from their key set.
EmptyMap == <<>>

\* HashMap::insert: the value under k is set, replacing any previous one.
MapInsert(m, k, v) ==
    [x \in (DOMAIN m) \cup {k} |-> IF x = k THEN v ELSE m[x]]

\* HashMap::get.
MapGet(m, k) == IF k \in DOMAIN m THEN Some(m[k]) ELSE None

\* Every order in which the keys of a HashMap may be iterated.
Orders(keys) ==
    {p \in [1..Cardinality(keys) -> keys] :
        \A i, j \in 1..Cardinality(keys) : p[i] = p[j] => i = j}

---------------------------------------------------------------------------
(* Numbers as text.                                                        *)

Digits == <<"0", "1", "2", "3", "4", "5", "6", "7", "8", "9">>

DigitChars == {Digits[i] : i \in 1..10}

DigitVal(c) == (CHOOSE i \in 1..10 : Digits[i] = c) - 1

RECURSIVE NatToStr(_)
\* The decimal digits of a natural number.
NatToStr(n) ==
    IF n < 10 THEN <<Digits[n + 1]>>
    ELSE Append(NatToStr(n \div 10), Digits[(n % 10) + 1])

\* i64::to_string.
IntToStr(i) == IF i < 0 THEN <<"-">> \o NatToStr(-i) ELSE NatToStr(i)

RECURSIVE DigitsToNat(_)
\* The number a non-empty run of digits denotes.
DigitsToNat(s) ==
    IF Len(s) = 0 THEN 0
    ELSE 10 * DigitsToNat(SubSeq(s, 1, Len(s) - 1)) + DigitVal(s[Len(s)])

AllDigits(s) == \A i \in 1..Len(s) : s[i] \in DigitChars

HasSign(s) == Len(s) > 0 /\ s[1] \in {"+", "-"}

Unsigned(s) == IF HasSign(s) THEN Tail(s) ELSE s

Signed(s, n) == IF HasSign(s) /\ s[1] = "-" THEN -n ELSE n

\* str::parse::<i64>: an optional sign and one or more digits.
ParseI64(s) ==
    LET body == Unsigned(s)
    IN IF Len(body) > 0 /\ AllDigits(body)
       THEN Some(Signed(s, DigitsToNat(body)))
       ELSE None

RECURSIVE Pow10(_)
Pow10(n) == IF n = 0 THEN 1 ELSE 10 * Pow10(n - 1)

RECURSIVE Normal(_, _)
\* A decimal m / 10^d without trailing fraction zeros.
Normal(m, d) ==
    IF d > 0 /\ m % 10 = 0 THEN Normal(m \div 10, d - 1)
    ELSE [m |-> m, d |-> d]

\* Where the decimal point of s is, or 0.
PointAt(s) ==
    IF \E i \in 1..Len(s) : s[i] = "."
    THEN CHOOSE i \in 1..Len(s) : s[i] = "."
    ELSE 0

\* The words str::parse::<f64> accepts besides decimals (lower case).
FloatWords == {<<"i", "n", "f">>, <<"n", "a", "n">>,
               <<"i", "n", "f", "i", "n", "i", "t", "y">>}

\* str::parse::<f64> on texts without an exponent: an optional sign, then
\* digits with at most one decimal point and at least one digit, or one of
\* the words inf, infinity, nan.  A float is kept as the decimal m / 10^d;
\* an infinity or NaN is kept as the word Display prints for it.
ParseF64(s) ==
    LET body == Unsigned(s)
        p == PointAt(body)
        whole == IF p = 0 THEN body ELSE SubSeq(body, 1, p - 1)
        frac == IF p = 0 THEN <<>> ELSE SubSeq(body, p + 1, Len(body))
    IN IF body \in FloatWords
       THEN Some([m |-> 0, d |-> 0,
                  word |-> IF body = <<"n", "a", "n">> THEN <<"N", "a", "N">>
                           ELSE IF HasSign(s) /\ s[1] = "-"
                                THEN <<"-", "i", "n", "f">>
                                ELSE <<"i", "n", "f">>])
       ELSE IF /\ AllDigits(whole) /\ AllDigits(frac)
               /\ Len(whole) + Len(frac) > 0
            THEN LET n == Normal(DigitsToNat(whole \o frac), Len(frac))
                 IN Some([m |-> Signed(s, n.m), d |-> n.d, word |-> <<>>])
            ELSE None

TrueText == <<"t", "r", "u", "e">>

FalseText == <<"f", "a", "l", "s", "e">>

\* str::parse::<bool>: exactly "true" or "false".
ParseBool(s) ==
    IF s = TrueText THEN Some(TRUE)
    ELSE IF s = FalseText THEN Some(FALSE)
    ELSE None

\* bool::to_string.
BoolToStr(b) == IF b THEN TrueText ELSE FalseText

RECURSIVE PadFrac(_, _)
\* The d fraction digits of n, with leading zeros.
PadFrac(n, d) ==
    IF d = 0 THEN <<>>
    ELSE Append(PadFrac(n \div 10, d - 1), Digits[(n % 10) + 1])

\* f64::to_string (Display): the shortest decimal, without ".0" for a whole
\* number.
FloatToStr(f) ==
    IF f.word # <<>> THEN f.word
    ELSE LET n == Normal(IF f.m < 0 THEN -f.m ELSE f.m, f.d)
             sign == IF f.m < 0 THEN <<"-">> ELSE <<>>
         IN IF n.d = 0 THEN sign \o NatToStr(n.m)
            ELSE sign \o NatToStr(n.m \div Pow10(n.d)) \o <<".">>
                      \o PadFrac(n.m % Pow10(n.d), n.d)

---------------------------------------------------------------------------
(* TOML values.                                                            *)

\* toml::Value: one record shape for every variant; s is a String's text,
\* n an Integer, f a Float, b a Boolean, tab a Table's entries in iteration
\* order (each [k |-> key, v |-> value]).
NoFloat == [m |-> 0, d |-> 0, word |-> <<>>]

TStr(s) == [t |-> "String", s |-> s, n |-> 0, f |-> NoFloat, b |-> FALSE,
            tab |-> <<>>]

TInt(i) == [t |-> "Integer", s |-> <<>>, n |-> i, f |-> NoFloat, b |-> FALSE,
            tab |-> <<>>]

TFloat(m, d) == [t |-> "Float", s |-> <<>>, n |-> 0,
                 f |-> [m |-> m, d |-> d, word |-> <<>>], b |-> FALSE,
                 tab |-> <<>>]

TBool(b) == [t |-> "Boolean", s |-> <<>>, n |-> 0, f |-> NoFloat, b |-> b,
             tab |-> <<>>]

TArray == [t |-> "Array", s |-> <<>>, n |-> 0, f |-> NoFloat, b |-> FALSE,
           tab |-> <<>>]

TTable(entries) == [t |-> "Table", s |-> <<>>, n |-> 0, f |-> NoFloat,
                    b |-> FALSE, tab |-> entries]

Entry(k, v) == [k |-> k, v |-> v]

\* toml::Value::as_table / as_str / as_bool / as_integer.
IsTable(v) == v.t = "Table"

IsStr(v) == v.t = "String"

IsBool(v) == v.t = "Boolean"

IsInteger(v) == v.t = "Integer"

\* Map::get on a table's entries.
TableGet(tab, key) ==
    IF \E i \in 1..Len(tab) : tab[i].k = key
    THEN Some(tab[CHOOSE i \in 1..Len(tab) : tab[i].k = key].v)
    ELSE None

\* SchemaManager::toml_value_to_string and APIExecutor::toml_value_to_string.
toml_value_to_string(value) ==
    CASE value.t = "String" -> Some(value.s)
      [] value.t = "Integer" -> Some(IntToStr(value.n))
      [] value.t = "Float" -> Some(FloatToStr(value.f))
      [] value.t = "Boolean" -> Some(BoolToStr(value.b))
      [] OTHER -> None

---------------------------------------------------------------------------
(* Query parameter values and definitions.                                 *)

\* QueryParamValue, one record shape for every variant.
QString(s) == [t |-> "String", s |-> s, n |-> 0, f |-> NoFloat, b |-> FALSE]

QInteger(i) == [t |-> "Integer", s |-> <<>>, n |-> i, f |-> NoFloat,
                b |-> FALSE]

QFloat(f) == [t |-> "Float", s |-> <<>>, n |-> 0, f |-> f, b |-> FALSE]

QBoolean(b) == [t |-> "Boolean", s |-> <<>>, n |-> 0, f |-> NoFloat, b |-> b]

\* QueryParamValue::to_string.
QueryParamValue_to_string(v) ==
    CASE v.t = "String" -> v.s
      [] v.t = "Integer" -> IntToStr(v.n)
      [] v.t = "Float" -> FloatToStr(v.f)
      [] v.t = "Boolean" -> BoolToStr(v.b)

\* SchemaManager::infer_param_type.
infer_param_type(value) ==
    IF ParseI64(value).some THEN "i64"
    ELSE IF ParseF64(value).some THEN "f64"
    ELSE IF ParseBool(value).some THEN "bool"
    ELSE "String"

\* SchemaManager::string_to_param_value.
string_to_param_value(value) ==
    IF ParseI64(value).some THEN QInteger(ParseI64(value).v)
    ELSE IF ParseF64(value).some THEN QFloat(ParseF64(value).v)
    ELSE IF ParseBool(value).some THEN QBoolean(ParseBool(value).v)
    ELSE QString(value)

\* QueryParamDefinition.
QueryParamDefinition(name, param_type, default, description) ==
    [name |-> name, param_type |-> param_type, default |-> default,
     description |-> description]

---------------------------------------------------------------------------
(* JSON values.                                                            *)

\* serde_json::Value: one record shape for every variant; s is the text of
\* a number or string, items the elements of an array (k is "") or the
\* members of an object in the map's iteration order.
JNull == [t |-> "Null", s |-> <<>>, items |-> <<>>]

JNum(s) == [t |-> "Number", s |-> s, items |-> <<>>]

JStr(s) == [t |-> "String", s |-> s, items |-> <<>>]

JArr(elems) ==
    [t |-> "Array", s |-> <<>>,
     items |-> [i \in 1..Len(elems) |-> Entry("", elems[i])]]

JObj(members) == [t |-> "Object", s |-> <<>>, items |-> members]

\* The keys of JSON objects, in the order serde_json's Map keeps them.
JsonKeyOrder == <<"count", "news_site", "published_at", "results", "title">>

\* The keys of the objects that are drawn as documents.
ObjectKeys == <<"count", "results", "title">>

KeyRank(k) == CHOOSE i \in 1..Len(JsonKeyOrder) : JsonKeyOrder[i] = k

\* Value::as_object().contains_key.
JsonHasKey(obj, k) == \E i \in 1..Len(obj.items) : obj.items[i].k = k

\* A plausible slip: a key already copied is not copied again, and the
\* "count" member is one.
JsonInsertDropCount(members, k, v) ==
    IF k = "count" THEN members ELSE Append(members, Entry(k, v))

\* serde_json::Map::insert: replace the member under k, or add it at its
\* place in key order.
JsonInsert(members, k, v) ==
    IF \E i \in 1..Len(members) : members[i].k = k
    THEN [i \in 1..Len(members) |->
            IF members[i].k = k THEN Entry(k, v) ELSE members[i]]
    ELSE LET before == SelectSeq(members, LAMBDA e : KeyRank(e.k) < KeyRank(k))
             after == SelectSeq(members, LAMBDA e : KeyRank(e.k) > KeyRank(k))
         IN before \o <<Entry(k, v)>> \o after

---------------------------------------------------------------------------
(* Results.                                                                *)

Ok(v) == [ok |-> TRUE, v |-> v]

Err(e) == [ok |-> FALSE, err |-> e]

\* format!("Schema '{}' not found", schema_name).
SchemaNotFound(schema_name) == <<"Schema '">> \o schema_name \o <<"' not found">>

---------------------------------------------------------------------------
(* SchemaManager.                                                          *)

\* String::contains on an entry name, a sequence of name parts.
Contains(name, part) == \E i \in 1..Len(name) : name[i] = part

FieldDefinition(name, type_name, optional) ==
    [name |-> name, type_name |-> type_name, optional |-> optional]

Schema(name, fields, nested_fields, query_params) ==
    [name |-> name, fields |-> fields, nested_fields |-> nested_fields,
     query_params |-> query_params]

\* A plausible slip: the ".nested_fields" sections are not passed over, as
\* in parse_endpoints.
LoadSkipsButNested(name) ==
    \/ name = <<"types">> \/ name = <<"config">>
    \/ Contains(name, ".query_params")
    \/ Contains(name, ".schema")

\* The entries load_from_toml_value passes over.
LoadSkips(name) ==
    \/ name = <<"types">> \/ name = <<"config">>
    \/ Contains(name, ".query_params")
    \/ Contains(name, ".nested_fields")
    \/ Contains(name, ".schema")

RECURSIVE ParseFields(_)
\* The loop over schema_def_table: every key but nested_fields whose value is
\* a string becomes a field.
ParseFields(tab) ==
    IF tab = <<>> THEN <<>>
    ELSE LET e == Head(tab)
             rest == ParseFields(Tail(tab))
         IN IF e.k # "nested_fields" /\ IsStr(e.v)
            THEN <<FieldDefinition(e.k, e.v.s, FALSE)>> \o rest
            ELSE rest

RECURSIVE ParseNested(_, _)
\* The loop over nested_table: string-valued entries are inserted.
ParseNested(tab, m) ==
    IF tab = <<>> THEN m
    ELSE ParseNested(Tail(tab),
                     IF IsStr(Head(tab).v)
                     THEN MapInsert(m, Head(tab).k, Head(tab).v.s)
                     ELSE m)

RECURSIVE ParseQueryParams(_, _)
\* The loop over query_table: a value toml_value_to_string renders becomes a
\* definition whose type and default are inferred from that text.
ParseQueryParams(tab, m) ==
    IF tab = <<>> THEN m
    ELSE LET e == Head(tab)
             value_str == toml_value_to_string(e.v)
         IN ParseQueryParams(Tail(tab),
                IF value_str.some
                THEN MapInsert(m, e.k,
                        QueryParamDefinition(e.k,
                            infer_param_type(value_str.v),
                            Some(string_to_param_value(value_str.v)),
                            None))
                ELSE m)

\* The schema load_from_toml_value builds for the table-shaped entry name.
LoadSchema(tables, name) ==
    LET schema_section == TableGet(tables, name \o <<".schema">>)
        has_def == schema_section.some /\ IsTable(schema_section.v)
        nested_section ==
            IF has_def THEN TableGet(schema_section.v.tab, "nested_fields")
            ELSE None
        fields == IF has_def THEN ParseFields(schema_section.v.tab) ELSE <<>>
        nested_fields ==
            IF nested_section.some /\ IsTable(nested_section.v)
            THEN ParseNested(nested_section.v.tab, EmptyMap)
            ELSE EmptyMap
        query_section == TableGet(tables, name \o <<".query_params">>)
        query_params ==
            IF query_section.some /\ IsTable(query_section.v)
            THEN ParseQueryParams(query_section.v.tab, EmptyMap)
            ELSE EmptyMap
    IN Schema(name, fields, nested_fields, query_params)

RECURSIVE LoadEntriesKeepFirst(_, _, _)
\* A plausible slip: a schema is stored only under a name the manager does
\* not hold yet (entry().or_insert), so that a later load changes nothing
\* under the names of an earlier one.
LoadEntriesKeepFirst(m, tables, i) ==
    IF i > Len(tables) THEN m
    ELSE LET name == tables[i].k
             value == tables[i].v
         IN LoadEntriesKeepFirst(
                IF ~LoadSkips(name) /\ IsTable(value) /\ name \notin DOMAIN m
                THEN MapInsert(m, name, LoadSchema(tables, name))
                ELSE m,
                tables, i + 1)

RECURSIVE LoadEntries(_, _, _)
\* The loop of load_from_toml_value over the top-level entries from the
\* i-th on.
LoadEntries(m, tables, i) ==
    IF i > Len(tables) THEN m
    ELSE LET name == tables[i].k
             value == tables[i].v
         IN LoadEntries(
                IF ~LoadSkips(name) /\ IsTable(value)
                THEN MapInsert(m, name, LoadSchema(tables, name))
                ELSE m,
                tables, i + 1)

\* SchemaManager::load_from_toml_value: the schema map afterwards (the call
\* returns Ok(()) on every path).
load_from_toml_value(m, config) ==
    IF IsTable(config) THEN LoadEntries(m, config.tab, 1) ELSE m

\* A plausible slip: an absent schema is taken to be an empty one
\* (entry().or_default()).
get_schema_or_default(m, name) ==
    IF name \in DOMAIN m THEN Some(m[name])
    ELSE Some([name |-> name, fields |-> <<>>, nested_fields |-> <<>>,
               query_params |-> <<>>])

\* SchemaManager::get_schema.
get_schema(m, name) == MapGet(m, name)

\* A plausible slip: a look-up of an absent name stores an empty schema
\* under it (entry().or_default() on a manager borrowed mutably).
get_schema_inserts(m, name) ==
    IF name \in DOMAIN m THEN m
    ELSE MapInsert(m, name, Schema(name, <<>>, EmptyMap, EmptyMap))

\* The schema map after get_schema(&self, name), and after apply_schema and
\* build_query_string, which reach the map through get_schema alone: the
\* manager is borrowed shared, the map is as it was.
get_schema_leaves(m, name) == m

RECURSIVE CopyMembers(_, _)
\* The loop of apply_schema: every member is inserted into result.
CopyMembers(members, result) ==
    IF members = <<>> THEN result
    ELSE CopyMembers(Tail(members),
                     JsonInsert(result, Head(members).k, Head(members).v))

\* SchemaManager::apply_schema.
apply_schema(m, schema_name, data) ==
    IF ~get_schema(m, schema_name).some
    THEN Err(SchemaNotFound(schema_name))
    ELSE IF data.t = "Object"
         THEN Ok(JObj(CopyMembers(data.items, <<>>)))
         ELSE Ok(data)

\* The characters urlencoding::encode leaves as they are.
Unreserved ==
    DigitChars \cup {"-", "_", ".", "~"}
        \cup {"a", "b", "c", "d", "e", "f", "g", "h", "i", "j", "k", "l", "m",
              "n", "o", "p", "q", "r", "s", "t", "u", "v", "w", "x", "y", "z",
              "A", "N"}

\* The percent-encoding of the other characters of the model.
PercentCode(c) ==
    CASE c = " " -> <<"%", "2", "0">>
      [] c = "&" -> <<"%", "2", "6">>
      [] c = "+" -> <<"%", "2", "B">>
      [] c = "/" -> <<"%", "2", "F">>
      [] c = "=" -> <<"%", "3", "D">>
      [] c = "?" -> <<"%", "3", "F">>

RECURSIVE UrlEncode(_)
\* urlencoding::encode.
UrlEncode(s) ==
    IF s = <<>> THEN <<>>
    ELSE (IF Head(s) \in Unreserved THEN <<Head(s)>> ELSE PercentCode(Head(s)))
            \o UrlEncode(Tail(s))

RECURSIVE Join(_, _)
\* [String]::join(sep).
Join(parts, sep) ==
    IF Len(parts) = 0 THEN <<>>
    ELSE IF Len(parts) = 1 THEN parts[1]
    ELSE parts[1] \o <<sep>> \o Join(Tail(parts), sep)

\* format!("{}={}", key, urlencoding::encode(value)).
Pair(key, value) == <<key, "=">> \o UrlEncode(value)

\* A plausible slip: the check that the schema declares the key is left out.
ProvidedPairUnchecked(schema, params, key) == <<Pair(key, params[key])>>

\* The first loop of build_query_string, for one caller key.
ProvidedPair(schema, params, key) ==
    IF key \in DOMAIN schema.query_params
    THEN <<Pair(key, params[key])>>
    ELSE <<>>

\* A plausible slip: the default is pushed only when the caller gave no
\* parameter at all.
DefaultPairWhenNoParams(schema, params, param_name) ==
    IF DOMAIN params = {} /\ schema.query_params[param_name].default.some
    THEN <<Pair(param_name,
                QueryParamValue_to_string(
                    schema.query_params[param_name].default.v))>>
    ELSE <<>>

\* A plausible slip: the default is pushed without a look at what the
\* caller supplied.
DefaultPairAlways(schema, params, param_name) ==
    IF schema.query_params[param_name].default.some
    THEN <<Pair(param_name,
                QueryParamValue_to_string(
                    schema.query_params[param_name].default.v))>>
    ELSE <<>>

\* The second loop of build_query_string, for one declared parameter.
DefaultPair(schema, params, param_name) ==
    IF param_name \notin DOMAIN params
            /\ schema.query_params[param_name].default.some
    THEN <<Pair(param_name,
                QueryParamValue_to_string(
                    schema.query_params[param_name].default.v))>>
    ELSE <<>>

RECURSIVE ProvidedPairs(_, _, _)
ProvidedPairs(schema, params, order) ==
    IF order = <<>> THEN <<>>
    ELSE ProvidedPair(schema, params, Head(order))
            \o ProvidedPairs(schema, params, Tail(order))

RECURSIVE DefaultPairs(_, _, _)
DefaultPairs(schema, params, order) ==
    IF order = <<>> THEN <<>>
    ELSE DefaultPair(schema, params, Head(order))
            \o DefaultPairs(schema, params, Tail(order))

\* A plausible slip: the empty case is not told apart.
QueryStringAlwaysPrefixed(query_pairs) == <<"?">> \o Join(query_pairs, "&")

\* The end of build_query_string: "" or "?" and the pairs joined by "&".
QueryString(query_pairs) ==
    IF query_pairs = <<>> THEN <<>>
    ELSE <<"?">> \o Join(query_pairs, "&")

\* SchemaManager::build_query_string; porder and qorder are the orders in
\* which the two HashMaps happen to be iterated.
build_query_string(m, schema_name, params, porder, qorder) ==
    IF ~get_schema(m, schema_name).some
    THEN Err(SchemaNotFound(schema_name))
    ELSE LET schema == get_schema(m, schema_name).v
         IN Ok(QueryString(ProvidedPairs(schema, params, porder)
                              \o DefaultPairs(schema, params, qorder)))

---------------------------------------------------------------------------
(* Inputs: configuration documents, JSON documents, caller parameters.     *)

\* The top-level entry names configurations are built from, in the order of
\* the table's keys.
NameOrder ==
    << <<"a">>, <<"a", ".nested_fields">>, <<"a", ".query_params">>,
       <<"a", ".schema">>, <<"b">>, <<"config">>, <<"types">> >>

\* [x] enabled = true, url = "h/x"
EndpointTable ==
    TTable(<<Entry("enabled", TBool(TRUE)),
             Entry("url", TStr(<<"h", "/", "x">>))>>)

\* [x] enabled = false, url = "h/y"
DisabledEndpointTable ==
    TTable(<<Entry("enabled", TBool(FALSE)),
             Entry("url", TStr(<<"h", "/", "y">>))>>)

\* [x] limit = 10, ordering = "-a"
QueryTable ==
    TTable(<<Entry("limit", TInt(10)),
             Entry("ordering", TStr(<<"-", "a">>))>>)

\* [x] limit = 1.5, q = "a&", tags = []
QueryTableMixed ==
    TTable(<<Entry("limit", TFloat(15, 1)),
             Entry("q", TStr(<<"a", "&">>)),
             Entry("tags", TArray)>>)

\* [x] id = 1, title = "u32", nested_fields = { authors = "Author" }
SchemaTable ==
    TTable(<<Entry("id", TInt(1)),
             Entry("nested_fields",
                   TTable(<<Entry("authors", TStr(<<"A", "u", "t", "h", "o", "r">>))>>)),
             Entry("title", TStr(<<"u", "3", "2">>))>>)

\* The values a top-level entry may have: five tables and one string.
EntryValues ==
    {EndpointTable, DisabledEndpointTable, QueryTable, QueryTableMixed,
     SchemaTable, TStr(<<"x">>)}

RECURSIVE EntriesFrom(_, _)
\* The entry lists of at most n entries over the names from the r-th on.
EntriesFrom(r, n) ==
    IF n = 0 \/ r > Len(NameOrder) THEN {<<>>}
    ELSE EntriesFrom(r + 1, n)
            \cup {<<Entry(NameOrder[r], v)>> \o rest :
                    v \in EntryValues, rest \in EntriesFrom(r + 1, n - 1)}

\* The configuration documents of the model.
Configs == {TTable(es) : es \in EntriesFrom(1, MaxEntries)}

\* The schema names operations are called with; the last is never loaded.
SchemaNames == {<<"a">>, <<"b">>, <<"a", ".nested_fields">>, <<"nosuch">>}

\* The characters of caller-supplied values: one urlencoding keeps and one
\* it encodes.
ValChars == {"a", "&"}

ValTexts == Strs(ValChars, MaxValLen)

\* The parameter names callers use: one that the query tables declare and
\* one that no schema declares.
CallerKeys == {"limit", "page"}

\* The caller parameter maps.
ParamMaps == UNION {[K -> ValTexts] : K \in SUBSET CallerKeys}

JTitled == JObj(<<Entry("title", JStr(<<"T">>))>>)

JScalars == {JNull, JNum(<<"1">>), JStr(<<"T">>)}

JArrays == {JArr(<<>>)} \cup {JArr(<<e>>) : e \in JScalars \cup {JTitled}}

\* The values of an object's members.
JMemberValues == {JNull, JNum(<<"1">>), JArr(<<JTitled>>)}

RECURSIVE MembersFrom(_)
\* The member lists over the keys from the r-th on, in key order.
MembersFrom(r) ==
    IF r > Len(ObjectKeys) THEN {<<>>}
    ELSE MembersFrom(r + 1)
            \cup {<<Entry(ObjectKeys[r], v)>> \o rest :
                    v \in JMemberValues, rest \in MembersFrom(r + 1)}

JObjects == {JObj(ms) : ms \in MembersFrom(1)}

\* The JSON documents of the model.
JsonData == JScalars \cup JArrays \cup JObjects

---------------------------------------------------------------------------
(* A SchemaManager and the calls on it.                                    *)

\* SchemaManager::new.
InitSchema ==
    /\ schemas = EmptyMap
    /\ ret = [op |-> "new"]
    /\ kind = Idle /\ base_url = Idle /\ built = Idle
    /\ client = Idle /\ call = Idle
    /\ executor = Idle /\ pc = Idle /\ idx = Idle
    /\ requests = Idle /\ output = Idle /\ outcome = Idle
    /\ OffIdle

\* The model follows a manager through its loads and then one read call:
\* the read calls leave the manager as it is.
Loading == ret.op \in {"new", "load"}

\* SchemaManager::load_from_toml_value.
Load(config) ==
    /\ Loading
    /\ schemas' = load_from_toml_value(schemas, config)
    /\ ret' = [op |-> "load", res |-> Ok(<<>>)]
    /\ UNCHANGED <<offVars, urlVars, clVars, exVars>>

\* SchemaManager::apply_schema.
ApplySchema(schema_name, data) ==
    /\ Loading
    /\ ret' = [op |-> "apply_schema", name |-> schema_name, data |-> data,
               res |-> apply_schema(schemas, schema_name, data)]
    /\ schemas' = get_schema_leaves(schemas, schema_name)
    /\ UNCHANGED <<offVars, urlVars, clVars, exVars>>

\* The orders in which the query parameters of schema_name may be iterated.
QueryOrders(m, schema_name) ==
    IF schema_name \in DOMAIN m
    THEN Orders(DOMAIN m[schema_name].query_params)
    ELSE {<<>>}

\* SchemaManager::build_query_string.
BuildQueryString(schema_name, params) ==
    /\ Loading
    /\ \E porder \in Orders(DOMAIN params),
          qorder \in QueryOrders(schemas, schema_name) :
            ret' = [op |-> "build_query_string", name |-> schema_name,
                    params |-> params,
                    res |-> build_query_string(schemas, schema_name, params,
                                               porder, qorder)]
    /\ schemas' = get_schema_leaves(schemas, schema_name)
    /\ UNCHANGED <<offVars, urlVars, clVars, exVars>>

NextSchema ==
    \/ \E config \in Configs : Load(config)
    \/ \E schema_name \in SchemaNames, data \in JsonData :
            ApplySchema(schema_name, data)
    \/ \E schema_name \in SchemaNames, params \in ParamMaps :
            BuildQueryString(schema_name, params)

SpecSchema == InitSchema /\ [][NextSchema]_vars

---------------------------------------------------------------------------
(* Properties of the SchemaManager.                                        *)

RECURSIVE SplitOn(_, _)
\* The pieces of s between the occurrences of sep.
SplitOn(s, sep) ==
    IF \E i \in 1..Len(s) : s[i] = sep
    THEN LET i == CHOOSE i \in 1..Len(s) :
                    s[i] = sep /\ \A j \in 1..(i - 1) : s[j] # sep
         IN <<SubSeq(s, 1, i - 1)>> \o SplitOn(SubSeq(s, i + 1, Len(s)), sep)
    ELSE <<s>>

\* The key=value pieces of a query string, in order.
Segments(q) == IF q = <<>> THEN <<>> ELSE SplitOn(Tail(q), "&")

SegmentSet(q) == {Segments(q)[i] : i \in 1..Len(Segments(q))}

\* The pairs the specification asks for: the caller's declared keys with
\* the caller's values, and the defaults of the declared parameters the
\* caller did not supply.
ProvidedExpected(schema, params) ==
    {<<k, "=">> \o UrlEncode(params[k]) :
        k \in (DOMAIN params) \cap (DOMAIN schema.query_params)}

DefaultExpected(schema, params) ==
    {<<k, "=">> \o UrlEncode(QueryParamValue_to_string(
                                schema.query_params[k].default.v)) :
        k \in {x \in (DOMAIN schema.query_params) \ (DOMAIN params) :
                    schema.query_params[x].default.some}}

ExpectedPairs(schema, params) ==
    ProvidedExpected(schema, params) \cup DefaultExpected(schema, params)

\* A build_query_string call on a schema the manager holds has returned.
Built == ret.op = "build_query_string" /\ ret.name \in DOMAIN schemas

\* C2: the set of key=value pairs of build_query_string(S, P) is exactly one
\* pair key=urlencode(P[key]) for each key of P that S declares and one pair
\* key=urlencode(default) for each declared parameter with a default that P
\* does not supply.
C2_QueryPairsExact ==
    Built => /\ ret.res.ok
             /\ SegmentSet(ret.res.v)
                    = ExpectedPairs(schemas[ret.name], ret.params)

\* C2 witness: the caller supplied limit, a value that needs encoding, and
\* the default of ordering was added.
C2_Witness ==
    /\ Built
    /\ ret.params = [k \in {"limit"} |-> <<"&">>]
    /\ SegmentSet(ret.res.v)
          = {<<"limit", "=", "%", "2", "6">>, <<"ordering", "=", "-", "a">>}

\* C3: build_query_string emits no parameter the schema does not declare; a
\* caller key the schema does not declare is dropped and the call succeeds.
C3_OnlyDeclaredEmitted ==
    Built => /\ ret.res.ok
             /\ \A i \in 1..Len(Segments(ret.res.v)) :
                    /\ Len(Segments(ret.res.v)[i]) >= 2
                    /\ Segments(ret.res.v)[i][1]
                            \in DOMAIN schemas[ret.name].query_params
                    /\ Segments(ret.res.v)[i][2] = "="

\* C3 witness: the caller supplied page, which the schema does not declare,
\* and the result holds the declared parameters only.
C3_Witness ==
    /\ Built
    /\ "page" \in DOMAIN ret.params
    /\ DOMAIN schemas[ret.name].query_params = {"limit", "ordering"}
    /\ ret.res.ok
    /\ Len(Segments(ret.res.v)) = 2

\* C4: build_query_string returns the empty string when no pair is produced,
\* and otherwise "?" followed by the pairs joined by "&", with no leading,
\* trailing or doubled "&".
C4_QueryStringShape ==
    Built =>
        LET q == ret.res.v
            want == ExpectedPairs(schemas[ret.name], ret.params)
        IN /\ (want = {}) <=> (q = <<>>)
           /\ q # <<>> =>
                /\ q[1] = "?"
                /\ q[2] # "&" /\ q[Len(q)] # "&"
                /\ \A i \in 2..(Len(q) - 1) : ~(q[i] = "&" /\ q[i + 1] = "&")
                /\ \A i \in 2..Len(q) : q[i] # "?"
                /\ Len(Segments(q)) = Cardinality(want)
                /\ SegmentSet(q) = want

\* C4 witness: a query string of two pairs, one "&" between them.
C4_Witness ==
    /\ Built
    /\ Len(Segments(ret.res.v)) = 2
    /\ Len(SelectSeq(ret.res.v, LAMBDA c : c = "&")) = 1
    /\ \E i \in 1..Len(ret.res.v) : ret.res.v[i] = "%"

\* C5: apply_schema and build_query_string on a schema name the manager
\* does not hold fail with "Schema '<name>' not found" and produce no value,
\* whatever the data or the parameters.
C5_UnknownSchemaFails ==
    (ret.op \in {"apply_schema", "build_query_string"}
            /\ ret.name \notin DOMAIN schemas)
        => /\ ~ret.res.ok
           /\ DOMAIN ret.res = {"ok", "err"}
           /\ ret.res.err = <<"Schema '">> \o ret.name \o <<"' not found">>

\* C5 witness: a manager that holds schemas was asked to build a query
\* string for a name it does not hold.
C5_Witness ==
    /\ ret.op = "build_query_string"
    /\ schemas # <<>>
    /\ ret.name = <<"a", ".nested_fields">>
    /\ ret.params # <<>>
    /\ ~ret.res.ok

KeySet(obj) == {obj.items[i].k : i \in 1..Len(obj.items)}

\* C6: for a known schema name apply_schema returns its input: an object
\* with the same keys and the same value under each, arrays and scalars
\* unchanged; applying it again changes nothing.
C6_ApplySchemaIdentity ==
    (ret.op = "apply_schema" /\ ret.name \in DOMAIN schemas)
        => /\ ret.res.ok
           /\ KeySet(ret.res.v) = KeySet(ret.data)
           /\ ret.res.v = ret.data
           /\ apply_schema(schemas, ret.name, ret.res.v) = ret.res

\* C6 witness: a paginated-shaped object came back as it went in.
C6_Witness ==
    /\ ret.op = "apply_schema" /\ ret.name \in DOMAIN schemas
    /\ KeySet(ret.data) = {"count", "results", "title"}
    /\ ret.res.ok
    /\ ret.res.v = ret.data

---------------------------------------------------------------------------
(* RESTClient: the operations that fetch.                                  *)

\* What the server does with a GET: the connection fails, the body is not
\* JSON, or the body is a JSON document.
Response(k, body) == [kind |-> k, body |-> body]

JDate == <<"2", "0", "2", "5", "-", "0", "1", "-", "0", "1">>

\* {"count":1,"results":[{"title":"T","news_site":"N",
\* "published_at":"2025-01-01"}]}, the members in the map's order.
JPage ==
    JObj(<<Entry("count", JNum(<<"1">>)),
           Entry("results",
                 JArr(<<JObj(<<Entry("news_site", JStr(<<"N">>)),
                               Entry("published_at", JStr(JDate)),
                               Entry("title", JStr(<<"T">>))>>)>>))>>)

Responses ==
    {Response("transport", JNull), Response("not_json", JNull),
     Response("json", JPage), Response("json", JStr(<<"T">>))}

\* send().await? and json().await: a reqwest::Error or the document.
Fetched(resp) ==
    CASE resp.kind = "transport" -> Err(<<"error sending request">>)
      [] resp.kind = "not_json" -> Err(<<"error decoding response body">>)
      [] OTHER -> Ok(resp.body)

NoSchemaManager == <<"No schema manager configured">>

\* What an operation did: the URLs it requested and what it returned.
Done(sent, res) == [sent |-> sent, res |-> res]

\* RESTClient::get and RESTClient::get_json.
get_json(cl, endpoint, resp) ==
    Done(<<RestBuildUrl(cl.base_url, endpoint)>>, Fetched(resp))

\* A plausible slip: the document is fetched before the manager is looked
\* for.
get_with_schema_fetch_first(cl, endpoint, schema_name, resp) ==
    LET got == get_json(cl, endpoint, resp)
    IN IF ~got.res.ok THEN got
       ELSE IF cl.schema_manager.some
            THEN Done(got.sent,
                      apply_schema(cl.schema_manager.v, schema_name, got.res.v))
            ELSE Done(got.sent, Err(NoSchemaManager))

\* RESTClient::get_with_schema.
get_with_schema(cl, endpoint, schema_name, resp) ==
    IF cl.schema_manager.some
    THEN LET got == get_json(cl, endpoint, resp)
         IN IF got.res.ok
            THEN Done(got.sent,
                      apply_schema(cl.schema_manager.v, schema_name, got.res.v))
            ELSE got
    ELSE Done(<<>>, Err(NoSchemaManager))

\* RESTClient::get_with_params, with T = serde_json::Value.
get_with_params(cl, endpoint, schema_name, params, porder, qorder, resp) ==
    IF cl.schema_manager.some
    THEN LET query_string ==
                build_query_string(cl.schema_manager.v, schema_name, params,
                                   porder, qorder)
         IN IF query_string.ok
            THEN Done(<<RestBuildUrl(cl.base_url, endpoint) \o query_string.v>>,
                      Fetched(resp))
            ELSE Done(<<>>, query_string)
    ELSE Done(<<>>, Err(NoSchemaManager))

\* RESTClient::get_with_params_and_schema.
get_with_params_and_schema(cl, endpoint, schema_name, params, po, qo, resp) ==
    IF cl.schema_manager.some
    THEN LET query_string ==
                build_query_string(cl.schema_manager.v, schema_name, params,
                                   po, qo)
             got == Fetched(resp)
             url == RestBuildUrl(cl.base_url, endpoint) \o query_string.v
         IN IF ~query_string.ok THEN Done(<<>>, query_string)
            ELSE IF ~got.ok THEN Done(<<url>>, got)
            ELSE Done(<<url>>,
                      apply_schema(cl.schema_manager.v, schema_name, got.v))
    ELSE Done(<<>>, Err(NoSchemaManager))

\* [articles] enabled, url; [articles.query_params] limit, ordering.
OneEndpointConfig ==
    TTable(<<Entry(<<"a">>, EndpointTable),
             Entry(<<"a", ".query_params">>, QueryTable)>>)

\* The managers clients are built with: an empty one and a loaded one.
ClientManagers ==
    {EmptyMap, load_from_toml_value(EmptyMap, OneEndpointConfig)}

ClientBases == {<<"h">>, <<"h", "/">>}

ClientEndpoints == {<<"x">>, <<"/", "x">>}

ClientSchemaNames == {<<"a">>, <<"nosuch">>}

ClientParams ==
    {EmptyMap, [k \in {"limit"} |-> <<"&">>], [k \in {"page"} |-> <<"a">>]}

\* RESTClient::new, RESTClient::with_client, RESTClient::with_schemas.
RESTClient(ctor, base, schema_manager) ==
    [ctor |-> ctor, base_url |-> base, schema_manager |-> schema_manager]

Clients ==
    {RESTClient(ctor, base, None) :
        ctor \in {"new", "with_client"}, base \in ClientBases}
    \cup {RESTClient("with_schemas", base, Some(m)) :
            base \in ClientBases, m \in ClientManagers}

InitClient ==
    /\ client \in Clients
    /\ call = [op |-> "none"]
    /\ kind = Idle /\ base_url = Idle /\ built = Idle
    /\ schemas = Idle /\ ret = Idle
    /\ executor = Idle /\ pc = Idle /\ idx = Idle
    /\ requests = Idle /\ output = Idle /\ outcome = Idle
    /\ OffIdle

Called(op, endpoint, schema_name, params, done) ==
    [op |-> op, endpoint |-> endpoint, name |-> schema_name,
     params |-> params, sent |-> done.sent, res |-> done.res]

\* The orders in which a client's manager may iterate a schema's parameters.
ClientQueryOrders(cl, schema_name) ==
    IF cl.schema_manager.some
    THEN QueryOrders(cl.schema_manager.v, schema_name)
    ELSE {<<>>}

\* The client after an operation that consults its manager about
\* schema_name: &self, and the manager behind it borrowed shared.
ClientAfter(cl, schema_name) ==
    IF cl.schema_manager.some
    THEN [cl EXCEPT !.schema_manager =
                        Some(get_schema_leaves(@.v, schema_name))]
    ELSE cl

GetJson(endpoint, resp) ==
    /\ call' = Called("get_json", endpoint, <<>>, EmptyMap,
                      get_json(client, endpoint, resp))
    /\ UNCHANGED <<offVars, client, urlVars, smVars, exVars>>

GetWithSchema(endpoint, schema_name, resp) ==
    /\ call' = Called("get_with_schema", endpoint, schema_name, EmptyMap,
                      get_with_schema(client, endpoint, schema_name, resp))
    /\ client' = ClientAfter(client, schema_name)
    /\ UNCHANGED <<offVars, urlVars, smVars, exVars>>

GetWithParams(endpoint, schema_name, params, resp) ==
    /\ \E porder \in Orders(DOMAIN params),
          qorder \in ClientQueryOrders(client, schema_name) :
            call' = Called("get_with_params", endpoint, schema_name, params,
                           get_with_params(client, endpoint, schema_name,
                                           params, porder, qorder, resp))
    /\ client' = ClientAfter(client, schema_name)
    /\ UNCHANGED <<offVars, urlVars, smVars, exVars>>

GetWithParamsAndSchema(endpoint, schema_name, params, resp) ==
    /\ \E porder \in Orders(DOMAIN params),
          qorder \in ClientQueryOrders(client, schema_name) :
            call' = Called("get_with_params_and_schema", endpoint,
                           schema_name, params,
                           get_with_params_and_schema(client, endpoint,
                                schema_name, params, porder, qorder, resp))
    /\ client' = ClientAfter(client, schema_name)
    /\ UNCHANGED <<offVars, urlVars, smVars, exVars>>

NextClient ==
    \/ \E e \in ClientEndpoints, r \in Responses : GetJson(e, r)
    \/ \E e \in ClientEndpoints, n \in ClientSchemaNames, r \in Responses :
            GetWithSchema(e, n, r)
    \/ \E e \in ClientEndpoints, n \in ClientSchemaNames,
          p \in ClientParams, r \in Responses :
            GetWithParams(e, n, p, r)
    \/ \E e \in ClientEndpoints, n \in ClientSchemaNames,
          p \in ClientParams, r \in Responses :
            GetWithParamsAndSchema(e, n, p, r)

SpecClient == InitClient /\ [][NextClient]_vars

SchemaOps ==
    {"get_with_schema", "get_with_params", "get_with_params_and_schema"}

\* C7: on a RESTClient built without a schema manager (new, with_client),
\* get_with_schema, get_with_params and get_with_params_and_schema fail with
\* "No schema manager configured" for every endpoint, schema name and
\* parameter map, and request nothing.
C7_NoManagerFails ==
    (client.ctor \in {"new", "with_client"} /\ call.op \in SchemaOps)
        => /\ ~call.res.ok
           /\ call.res.err = <<"No schema manager configured">>
           /\ call.sent = <<>>

\* C7 witness: get_with_schema on a client from RESTClient::new has failed
\* without a request.
C7_Witness ==
    /\ client.ctor = "new"
    /\ call.op = "get_with_schema"
    /\ ~call.res.ok
    /\ call.sent = <<>>

---------------------------------------------------------------------------
(* APIExecutor: what display_results prints.                               *)
(*                                                                         *)
(* A printed line is the sequence of its characters.  "é" stands for the   *)
(* characters that take two bytes in UTF-8; every other character of the   *)
(* model takes one.                                                        *)

\* char::len_utf8.
Utf8Len(c) == IF c = "é" THEN 2 ELSE 1

RECURSIVE ByteLen(_)
\* str::len: the length in bytes.
ByteLen(s) == IF Len(s) = 0 THEN 0 ELSE Utf8Len(s[1]) + ByteLen(Tail(s))

\* The message of the panic of a slice that ends inside a character.
NotCharBoundary == <<"byte index is not a char boundary">>

\* &s[..n]: the characters that fill the first n bytes; a panic when byte n
\* is inside a character or beyond the end.
SliceTo(s, n) ==
    IF \E k \in 0..Len(s) : ByteLen(SubSeq(s, 1, k)) = n
    THEN Ok(SubSeq(s, 1, CHOOSE k \in 0..Len(s) :
                            ByteLen(SubSeq(s, 1, k)) = n))
    ELSE Err(NotCharBoundary)

\* n copies of the character c.
Repeat(c, n) == [i \in 1..n |-> c]

\* "{:<width}": the text, filled with spaces up to width characters; a
\* longer text is printed whole.
PadLeftAligned(s, width) ==
    IF Len(s) >= width THEN s ELSE s \o Repeat(" ", width - Len(s))

\* The widths of the three columns of the table.
TitleWidth == 30

SiteWidth == 20

PublishedWidth == 20

\* The bytes of a long title that are kept before the "...".
TitleKept == 27

\* format!("  | {:<30} | {:<20} | {:<20} |", a, b, c).
TableRow(a, b, c) ==
    <<" ", " ", "|", " ">> \o PadLeftAligned(a, TitleWidth)
        \o <<" ", "|", " ">> \o PadLeftAligned(b, SiteWidth)
        \o <<" ", "|", " ">> \o PadLeftAligned(c, PublishedWidth) \o <<" ", "|">>

\* The first line of the table.
TableHeader == TableRow(<<"T", "i", "t", "l", "e">>, <<"N", "e", "w", "s", " ", "S", "i", "t", "e">>, <<"P", "u", "b", "l", "i", "s", "h", "e", "d">>)

\* format!("  |{:-<32}|{:-<22}|{:-<22}|", "", "", "").
TableRule ==
    <<" ", " ", "|">> \o Repeat("-", TitleWidth + 2) \o <<"|">>
        \o Repeat("-", SiteWidth + 2) \o <<"|">>
        \o Repeat("-", PublishedWidth + 2) \o <<"|">>

\* Value::get(key) on the members of an object.
JsonGet(obj, k) ==
    IF JsonHasKey(obj, k)
    THEN Some((CHOOSE e \in {obj.items[i] : i \in 1..Len(obj.items)} :
                    e.k = k).v)
    ELSE None

\* item_obj.get(key).and_then(|v| v.as_str()).unwrap_or("N/A").
StrOrNA(item_obj, key) ==
    LET v == JsonGet(item_obj, key)
    IN IF v.some /\ v.v.t = "String" THEN v.v.s ELSE <<"N", "/", "A">>

\* title_truncated: a title of more than 27 bytes is its first 27 bytes and
\* "...".
title_truncated(title) ==
    IF ByteLen(title) > TitleKept
    THEN LET head == SliceTo(title, TitleKept)
         IN IF head.ok THEN Ok(head.v \o <<".", ".", ".">>) ELSE head
    ELSE Ok(title)

\* &published[..std::cmp::min(20, published.len())].
published_shown(published) ==
    SliceTo(published,
            IF ByteLen(published) < PublishedWidth THEN ByteLen(published)
            ELSE PublishedWidth)

\* What a display function has printed, and the panic that ended it if one
\* did.
Shown(lines, panic) == [lines |-> lines, panic |-> panic]

\* A usize: the number n, or 2^64 + n for a negative n that "as usize" has
\* wrapped.
Usize(n) == [wraps |-> FALSE, n |-> n]

\* i as usize, for an i64.
AsUsize(i) == [wraps |-> i < 0, n |-> i]

\* Iterator::take(max_display_items): a wrapped max_display_items is more
\* than any array holds.
Take(elems, max_display_items) ==
    IF max_display_items.wraps \/ max_display_items.n >= Len(elems)
    THEN elems
    ELSE SubSeq(elems, 1, max_display_items.n)

\* The elements of a JSON array.
Elements(arr) == [i \in 1..Len(arr.items) |-> arr.items[i].v]

\* Value::get(key).and_then(|v| v.as_array()).
ArrayUnder(obj, key) ==
    LET v == JsonGet(obj, key)
    IN IF v.some /\ v.v.t = "Array" THEN Some(Elements(v.v)) ELSE None

RECURSIVE TableRows(_, _)
\* The loop of display_as_table from the i-th item on: one row per item
\* that is an object; the title is cut before the row is formatted.
TableRows(items, i) ==
    IF i > Len(items) THEN Shown(<<>>, None)
    ELSE IF items[i].t # "Object" THEN TableRows(items, i + 1)
    ELSE LET title == title_truncated(StrOrNA(items[i], "title"))
             news_site == StrOrNA(items[i], "news_site")
             published == published_shown(StrOrNA(items[i], "published_at"))
             rest == TableRows(items, i + 1)
         IN IF ~title.ok THEN Shown(<<>>, Some(title.err))
            ELSE IF ~published.ok THEN Shown(<<>>, Some(published.err))
            ELSE Shown(<<TableRow(title.v, news_site, published.v)>>
                            \o rest.lines, rest.panic)

\* APIExecutor::display_as_table.
display_as_table(global_config, data) ==
    LET results == IF data.t = "Object" THEN ArrayUnder(data, "results")
                   ELSE None
        rows == TableRows(Take(results.v, global_config.max_display_items), 1)
    IN IF results.some
       THEN Shown(<<TableHeader, TableRule>> \o rows.lines, rows.panic)
       ELSE Shown(<<>>, None)

\* The detailed view.  The key of a member is one element of a line, as it
\* is one element of a query string.

RECURSIVE CommaList(_)
\* The texts of parts with ", " between them.
CommaList(parts) ==
    IF Len(parts) = 0 THEN <<>>
    ELSE IF Len(parts) = 1 THEN parts[1]
    ELSE parts[1] \o <<",", " ">> \o CommaList(Tail(parts))

\* A plausible slip: a string is printed as as_str() gives it, bare.
ValueDisplayBare(val) ==
    CASE val.t = "Null" -> <<"n", "u", "l", "l">>
      [] val.t = "Number" -> val.s
      [] val.t = "String" -> val.s

\* "{}" of a Value that is neither an array nor an object: its JSON text, a
\* string in double quotes.
ValueDisplay(val) ==
    CASE val.t = "Null" -> <<"n", "u", "l", "l">>
      [] val.t = "Number" -> val.s
      [] val.t = "String" -> <<"\"">> \o val.s \o <<"\"">>

RECURSIVE ValueDebug(_)
\* "{:?}" of a Value.
ValueDebug(val) ==
    CASE val.t = "Null" -> <<"N", "u", "l", "l">>
      [] val.t = "Number" -> <<"N", "u", "m", "b", "e", "r", "(">> \o val.s \o <<")">>
      [] val.t = "String" -> <<"S", "t", "r", "i", "n", "g", "(", "\"">> \o val.s \o <<"\"", ")">>
      [] val.t = "Array" ->
            <<"A", "r", "r", "a", "y", " ", "[">>
                \o CommaList([i \in 1..Len(val.items) |->
                                ValueDebug(val.items[i].v)])
                \o <<"]">>
      [] val.t = "Object" ->
            <<"O", "b", "j", "e", "c", "t", " ", "{">>
                \o CommaList([i \in 1..Len(val.items) |->
                                <<"\"", val.items[i].k, "\"", ":", " ">>
                                    \o ValueDebug(val.items[i].v)])
                \o <<"}">>

\* The arrays display_object does not look into.
SizeOnlyKeys == {"events", "launches"}

RECURSIVE display_object(_, _)
RECURSIVE MemberLines(_, _, _)
\* The loop of display_object from the i-th member on.
MemberLines(obj, i, indent) ==
    IF i > Len(obj.items) THEN <<>>
    ELSE LET indent_str == Repeat(" ", indent)
             key == obj.items[i].k
             val == obj.items[i].v
             first == val.items[1].v
             own ==
                CASE val.t = "Object" ->
                        <<indent_str \o <<key, ":">>>>
                            \o display_object(val, indent + 2)
                  [] val.t = "Array" ->
                        <<indent_str \o <<key>> \o <<":", " ", "[">>
                            \o NatToStr(Len(val.items)) \o <<" ", "i", "t", "e", "m", "s", "]">>>>
                            \o (IF Len(val.items) = 0 \/ key \in SizeOnlyKeys
                                THEN <<>>
                                ELSE IF first.t = "Object"
                                THEN <<indent_str \o <<" ", " ", "F", "i", "r", "s", "t", " ", "i", "t", "e", "m", ":">>>>
                                        \o display_object(first, indent + 4)
                                ELSE <<indent_str \o <<" ", " ", "F", "i", "r", "s", "t", " ", "i", "t", "e", "m", ":", " ">>
                                        \o ValueDebug(first)>>)
                  [] OTHER ->
                        <<indent_str \o <<key>> \o <<":", " ">>
                            \o ValueDisplay(val)>>
         IN own \o MemberLines(obj, i + 1, indent)

\* APIExecutor::display_object: the lines it prints.
display_object(value, indent) ==
    IF value.t = "Object" THEN MemberLines(value, 1, indent)
    ELSE <<Repeat(" ", indent) \o ValueDebug(value)>>

\* Value::as_u64: a number written as digits only.
AsU64(v) ==
    IF v.some /\ v.v.t = "Number" /\ Len(v.v.s) > 0 /\ AllDigits(v.v.s)
    THEN Some(DigitsToNat(v.v.s))
    ELSE None

RECURSIVE ItemBlocks(_, _)
\* The loop of display_detailed from the i-th item on.
ItemBlocks(items, i) ==
    IF i > Len(items) THEN <<>>
    ELSE <<<<" ", " ", " ", " ", "I", "t", "e", "m", " ">> \o NatToStr(i) \o <<":">>>>
            \o display_object(items[i], 6) \o ItemBlocks(items, i + 1)

\* APIExecutor::display_detailed.
display_detailed(global_config, data) ==
    IF data.t # "Object"
    THEN Shown(<<<<" ", " ", "R", "e", "s", "p", "o", "n", "s", "e", ":", " ">> \o ValueDebug(data)>>, None)
    ELSE IF ~(JsonHasKey(data, "results") /\ JsonHasKey(data, "count"))
    THEN Shown(<<<<" ", " ", "R", "e", "s", "p", "o", "n", "s", "e", ":">>>> \o display_object(data, 4), None)
    ELSE LET count == AsU64(JsonGet(data, "count"))
             results == ArrayUnder(data, "results")
             shown == Take(results.v, global_config.max_display_items)
         IN Shown((IF count.some
                   THEN <<<<" ", " ", "T", "o", "t", "a", "l", " ", "r", "e", "s", "u", "l", "t", "s", ":", " ">> \o NatToStr(count.v)>>
                   ELSE <<>>)
                  \o (IF results.some
                      THEN <<<<" ", " ", "D", "i", "s", "p", "l", "a", "y", "i", "n", "g", " ", "f", "i", "r", "s", "t", " ">> \o NatToStr(Len(shown))
                                \o <<" ", "i", "t", "e", "m", "s", ":">>>> \o ItemBlocks(shown, 1)
                      ELSE <<>>),
                  None)

\* The JSON view.

\* The lines with prefix put before the first of them.
PrefixFirst(prefix, lines) == <<prefix \o lines[1]>> \o Tail(lines)

\* The lines with "," after the last of them when another element follows.
CommaAfter(lines, more) ==
    IF more
    THEN SubSeq(lines, 1, Len(lines) - 1) \o <<lines[Len(lines)] \o <<",">>>>
    ELSE lines

RECURSIVE PrettyLines(_, _)
RECURSIVE PrettyItems(_, _, _)
\* The elements or members of val from the i-th on, one level deeper than
\* depth, each on lines of its own.
PrettyItems(val, i, depth) ==
    IF i > Len(val.items) THEN <<>>
    ELSE LET inner == Repeat(" ", 2 * (depth + 1))
             lead == IF val.t = "Object"
                     THEN inner \o <<"\"", val.items[i].k, "\"", ":", " ">>
                     ELSE inner
         IN CommaAfter(PrefixFirst(lead,
                            PrettyLines(val.items[i].v, depth + 1)),
                       i < Len(val.items))
                \o PrettyItems(val, i + 1, depth)

\* serde_json::to_string_pretty: the lines of the text, two spaces a level.
PrettyLines(val, depth) ==
    CASE val.t \in {"Array", "Object"} /\ Len(val.items) = 0 ->
            <<IF val.t = "Array" THEN <<"[", "]">> ELSE <<"{", "}">>>>
      [] val.t = "Array" /\ Len(val.items) > 0 ->
            <<<<"[">>>> \o PrettyItems(val, 1, depth)
                \o <<Repeat(" ", 2 * depth) \o <<"]">>>>
      [] val.t = "Object" /\ Len(val.items) > 0 ->
            <<<<"{">>>> \o PrettyItems(val, 1, depth)
                \o <<Repeat(" ", 2 * depth) \o <<"}">>>>
      [] OTHER -> <<ValueDisplay(val)>>

JsonText == <<"j", "s", "o", "n">>

TableText == <<"t", "a", "b", "l", "e">>

\* APIExecutor::display_results: "json", "table", and the detailed view for
\* every other output_format.
display_results(global_config, data) ==
    IF global_config.output_format = JsonText
    THEN Shown(PrettyLines(data, 0), None)
    ELSE IF global_config.output_format = TableText
    THEN display_as_table(global_config, data)
    ELSE display_detailed(global_config, data)

---------------------------------------------------------------------------
(* APIExecutor.                                                            *)

EndpointConfig(name, url, enabled, schema_name, query_params) ==
    [name |-> name, url |-> url, enabled |-> enabled,
     schema_name |-> schema_name, query_params |-> query_params]

\* The entries parse_endpoints passes over.
EndpointSkips(name) ==
    \/ name = <<"config">> \/ name = <<"types">>
    \/ Contains(name, ".schema")
    \/ Contains(name, ".query_params")

RECURSIVE EndpointParams(_, _)
\* The loop of parse_endpoints over query_table.
EndpointParams(tab, m) ==
    IF tab = <<>> THEN m
    ELSE LET value_str == toml_value_to_string(Head(tab).v)
         IN EndpointParams(Tail(tab),
                IF value_str.some
                THEN MapInsert(m, Head(tab).k, value_str.v)
                ELSE m)

\* The EndpointConfig parse_endpoints builds for an entry that has a url.
ParseEndpoint(tables, name, endpoint_table) ==
    LET enabled_value == TableGet(endpoint_table, "enabled")
        enabled == IF enabled_value.some /\ IsBool(enabled_value.v)
                   THEN enabled_value.v.b
                   ELSE FALSE
        query_section == TableGet(tables, name \o <<".query_params">>)
        query_params ==
            IF query_section.some /\ IsTable(query_section.v)
            THEN EndpointParams(query_section.v.tab, EmptyMap)
            ELSE EmptyMap
    IN EndpointConfig(name, TableGet(endpoint_table, "url").v.s, enabled,
                      name, query_params)

\* Whether an entry's value is a table with a string under url.
HasUrl(value) ==
    /\ IsTable(value)
    /\ TableGet(value.tab, "url").some
    /\ IsStr(TableGet(value.tab, "url").v)

RECURSIVE EndpointsFrom(_, _)
\* The loop of parse_endpoints over the top-level entries from the i-th on.
EndpointsFrom(tables, i) ==
    IF i > Len(tables) THEN <<>>
    ELSE (IF ~EndpointSkips(tables[i].k) /\ HasUrl(tables[i].v)
          THEN <<ParseEndpoint(tables, tables[i].k, tables[i].v.tab)>>
          ELSE <<>>)
            \o EndpointsFrom(tables, i + 1)

\* APIExecutor::parse_endpoints.
parse_endpoints(config) ==
    IF IsTable(config) THEN EndpointsFrom(config.tab, 1) ELSE <<>>

DetailedText == <<"d", "e", "t", "a", "i", "l", "e", "d">>

\* The default of max_display_items.
DefaultMaxDisplayItems == 10

\* APIExecutor::parse_global_config.
parse_global_config(config) ==
    LET section == TableGet(config.tab, <<"config">>)
        has == section.some /\ IsTable(section.v)
        format == IF has THEN TableGet(section.v.tab, "output_format")
                  ELSE None
        items == IF has THEN TableGet(section.v.tab, "max_display_items")
                 ELSE None
    IN [output_format |->
            IF format.some /\ IsStr(format.v) THEN format.v.s
            ELSE DetailedText,
        max_display_items |->
            IF items.some /\ IsInteger(items.v) THEN AsUsize(items.v.n)
            ELSE Usize(DefaultMaxDisplayItems)]

\* APIExecutor::from_config_file on a document that parses.
from_config_file(config) ==
    [schema_manager |-> load_from_toml_value(EmptyMap, config),
     endpoints |-> parse_endpoints(config),
     global_config |-> parse_global_config(config)]

\* Where the last "/" of url is, or 0 (str::rfind).
LastSlash(url) ==
    IF \E i \in 1..Len(url) : url[i] = "/"
    THEN CHOOSE i \in 1..Len(url) :
            url[i] = "/" /\ \A j \in (i + 1)..Len(url) : url[j] # "/"
    ELSE 0

\* APIExecutor::split_url.
split_url(url) ==
    IF LastSlash(url) > 0
    THEN [base_url |-> SubSeq(url, 1, LastSlash(url) - 1),
          endpoint |-> SubSeq(url, LastSlash(url) + 1, Len(url))]
    ELSE [base_url |-> url, endpoint |-> <<>>]

\* A line printed by the executor: on stdout or stderr, about an endpoint.
Line(stream, what, name, err, data) ==
    [stream |-> stream, what |-> what, name |-> name, err |-> err,
     data |-> data, text |-> <<>>]

\* println!("Fetching data from: {} ({})", name, url).
FetchingLine(endpoint) == Line("stdout", "Fetching data from", endpoint.name,
                               <<>>, JNull)

\* eprintln!("Error fetching {}: {}", name, e).
ErrorLine(endpoint, e) == Line("stderr", "Error fetching", endpoint.name, e,
                               JNull)

\* display_results: the lines that show data in the configured format.
ResultLine(endpoint, data) ==
    [Line("stdout", "results", endpoint.name, <<>>, data) EXCEPT
        !.text = display_results(executor.global_config, data).lines]

\* println!() after an endpoint.
BlankLine(endpoint) == Line("stdout", "", endpoint.name, <<>>, JNull)

\* A plausible slip: the error of the request is returned with "?" instead
\* of being logged only.
execute_endpoint_propagates(res) == IF res.ok THEN Ok(<<>>) ELSE res

\* What execute_endpoint returns after a request that ended with res: both
\* arms of the match fall through to Ok(()).
execute_endpoint_returns(res) == Ok(<<>>)

\* The lines execute_endpoint prints once the request has ended with res.
EndpointLines(endpoint, res) ==
    <<IF res.ok THEN ResultLine(endpoint, res.v)
      ELSE ErrorLine(endpoint, res.err),
      BlankLine(endpoint)>>

\* APIExecutor::from_config_file, then the call of execute_all.
Init ==
    /\ \E config \in Configs : executor = from_config_file(config)
    /\ pc = "start"
    /\ idx = 0
    /\ requests = <<>>
    /\ output = <<>>
    /\ outcome = None
    /\ kind = Idle /\ base_url = Idle /\ built = Idle
    /\ schemas = Idle /\ ret = Idle
    /\ client = Idle /\ call = Idle
    /\ OffIdle

\* execute_all: the heading, then the loop.
ExecuteAll ==
    /\ pc = "start"
    /\ pc' = "loop"
    /\ idx' = 1
    /\ output' = Append(output,
                        Line("stdout", "Executing API endpoints", <<>>, <<>>,
                             JNull))
    /\ UNCHANGED <<offVars, executor, requests, outcome, urlVars, smVars, clVars>>

\* The loop of execute_all at an endpoint that is not enabled.
SkipDisabled ==
    /\ pc = "loop"
    /\ idx <= Len(executor.endpoints)
    /\ ~executor.endpoints[idx].enabled
    /\ idx' = idx + 1
    /\ UNCHANGED <<offVars, executor, pc, requests, output, outcome,
                   urlVars, smVars, clVars>>

\* execute_all after execute_endpoint(...).await?: on to the next endpoint,
\* or out of execute_all with the error.
AfterEndpoint(returned) ==
    IF returned.ok
    THEN /\ pc' = "loop"
         /\ idx' = idx + 1
         /\ outcome' = outcome
    ELSE /\ pc' = "done"
         /\ idx' = idx
         /\ outcome' = Some(returned)

\* The client execute_endpoint builds for an endpoint.
EndpointClient(endpoint) ==
    RESTClient("with_schemas", split_url(endpoint.url).base_url,
               Some(executor.schema_manager))

\* A plausible slip: the request is spawned instead of awaited, and the loop
\* of execute_all goes on while it is in flight.
Spawned == "loop"

\* get_with_params_and_schema(...).await: execute_endpoint, and execute_all
\* with it, is suspended until the request has ended.
Awaited == "await"

\* execute_endpoint up to the request: the line, the split URL, the scoped
\* client, the query string; the GET is sent, or the call has failed before.
BeginEndpoint ==
    /\ pc = "loop"
    /\ idx <= Len(executor.endpoints)
    /\ executor.endpoints[idx].enabled
    /\ LET endpoint == executor.endpoints[idx]
           cl == EndpointClient(endpoint)
       IN \E porder \in Orders(DOMAIN endpoint.query_params),
             qorder \in QueryOrders(executor.schema_manager,
                                    endpoint.schema_name) :
            LET query_string ==
                    build_query_string(cl.schema_manager.v,
                        endpoint.schema_name, endpoint.query_params,
                        porder, qorder)
            IN IF query_string.ok
               THEN /\ requests' =
                        Append(requests,
                               RestBuildUrl(cl.base_url,
                                            split_url(endpoint.url).endpoint)
                                    \o query_string.v)
                    /\ output' = Append(output, FetchingLine(endpoint))
                    /\ pc' = Awaited
                    /\ UNCHANGED <<idx, outcome>>
               ELSE /\ output' = output \o <<FetchingLine(endpoint)>>
                                    \o EndpointLines(endpoint, query_string)
                    /\ AfterEndpoint(execute_endpoint_returns(query_string))
                    /\ UNCHANGED requests
    /\ UNCHANGED <<offVars, executor, urlVars, smVars, clVars>>

\* execute_endpoint from the response on: the document goes through
\* apply_schema and is displayed, or the error is logged.  A panic of the
\* display ends the run where it happens.
Respond(resp) ==
    /\ pc = "await"
    /\ LET endpoint == executor.endpoints[idx]
           got == Fetched(resp)
           res == IF got.ok
                  THEN apply_schema(executor.schema_manager,
                                    endpoint.schema_name, got.v)
                  ELSE got
       IN IF res.ok /\ display_results(executor.global_config,
                                        res.v).panic.some
          THEN /\ output' = Append(output, ResultLine(endpoint, res.v))
               /\ pc' = "panicked"
               /\ UNCHANGED <<idx, outcome>>
          ELSE /\ output' = output \o EndpointLines(endpoint, res)
               /\ AfterEndpoint(execute_endpoint_returns(res))
    /\ UNCHANGED <<offVars, executor, requests, urlVars, smVars, clVars>>

\* execute_all after the last endpoint: Ok(()).
Finish ==
    /\ pc = "loop"
    /\ idx > Len(executor.endpoints)
    /\ pc' = "done"
    /\ outcome' = Some(Ok(<<>>))
    /\ UNCHANGED <<offVars, executor, idx, requests, output, urlVars, smVars, clVars>>

Next ==
    \/ ExecuteAll
    \/ SkipDisabled
    \/ BeginEndpoint
    \/ \E resp \in Responses : Respond(resp)
    \/ Finish

Spec == Init /\ [][Next]_vars

\* The lines of the output that say what about the endpoint name.
LinesAbout(what, name) ==
    SelectSeq(output, LAMBDA l : l.what = what /\ l.name = name)

\* The i-th endpoint has been executed: its heading line is printed, and
\* then its result or its error.
Executed(i) ==
    LET name == executor.endpoints[i].name
    IN /\ Len(LinesAbout("Fetching data from", name)) = 1
       /\ Len(LinesAbout("results", name))
            + Len(LinesAbout("Error fetching", name)) = 1

\* C8: a failure of one enabled endpoint (transport error, a body that is
\* not JSON, schema not found) is logged and does not end the run: every
\* enabled endpoint is executed and execute_all returns Ok.
C8_FailuresDoNotAbort ==
    /\ outcome.some => pc = "done" /\ outcome.v.ok
    /\ pc = "done" =>
        \A i \in 1..Len(executor.endpoints) :
            executor.endpoints[i].enabled => Executed(i)
    /\ \A i \in 1..Len(output) :
            output[i].what = "Error fetching" => output[i].stream = "stderr"

\* C8 witness: the first of two enabled endpoints failed, the second was
\* fetched and displayed, and execute_all returned Ok.
C8_Witness ==
    /\ pc = "done" /\ outcome.v.ok
    /\ Len(executor.endpoints) = 2
    /\ Len(LinesAbout("Error fetching", executor.endpoints[1].name)) = 1
    /\ Len(LinesAbout("results", executor.endpoints[2].name)) = 1

\* C9: after from_config_file every endpoint of the executor has a schema
\* under its schema_name, its own name, in the executor's schema manager,
\* and no endpoint fails with "schema not found"; also for an entry whose
\* name contains ".nested_fields" and that has a url.
C9_EveryEndpointHasSchema ==
    /\ \A i \in 1..Len(executor.endpoints) :
            /\ executor.endpoints[i].schema_name = executor.endpoints[i].name
            /\ executor.endpoints[i].schema_name
                    \in DOMAIN executor.schema_manager
    /\ \A i \in 1..Len(output) :
            output[i].what = "Error fetching"
                => output[i].err # SchemaNotFound(output[i].name)

---------------------------------------------------------------------------
(* A client and the URLs it requests.                                      *)

ClientKinds == {"RESTClient", "SpaceDevsClient", "SpaceDevsDataClient"}

\* RESTClient::new / with_client / with_schemas and
\* SpaceDevsClient::with_base_url / SpaceDevsDataClient::with_base_url:
\* the base URL is stored as given.
InitUrl ==
    /\ kind \in ClientKinds
    /\ base_url \in UrlTexts
    /\ built = None
    /\ schemas = Idle /\ ret = Idle
    /\ client = Idle /\ call = Idle
    /\ executor = Idle /\ pc = Idle /\ idx = Idle
    /\ requests = Idle /\ output = Idle /\ outcome = Idle
    /\ OffIdle

\* RESTClient::get / get_json: the URL requested is build_url(endpoint).
RestGet(endpoint) ==
    /\ kind = "RESTClient"
    /\ built' = [some |-> TRUE, endpoint |-> endpoint,
                 url |-> RestBuildUrl(base_url, endpoint)]
    /\ UNCHANGED <<offVars, kind, base_url, smVars, clVars, exVars>>

\* SpaceDevsClient::get / SpaceDevsDataClient::get.
TypedGet(endpoint) ==
    /\ kind \in {"SpaceDevsClient", "SpaceDevsDataClient"}
    /\ built' = [some |-> TRUE, endpoint |-> endpoint,
                 url |-> TypedBuildUrl(base_url, endpoint)]
    /\ UNCHANGED <<offVars, kind, base_url, smVars, clVars, exVars>>

NextUrl ==
    \/ \E endpoint \in UrlTexts : RestGet(endpoint)
    \/ \E endpoint \in UrlTexts : TypedGet(endpoint)

SpecUrl == InitUrl /\ [][NextUrl]_vars

\* s ends with no "/".
NoTrailingSlash(s) == Len(s) = 0 \/ s[Len(s)] # "/"

\* s starts with no "/".
NoLeadingSlash(s) == Len(s) = 0 \/ s[1] # "/"

\* s consists of "/" only.
AllSlashes(s) == \A i \in 1..Len(s) : s[i] = "/"

\* url is: base without its trailing slashes, one "/", endpoint without its
\* leading slashes.
IsJoined(url, base, endpoint) ==
    \E i \in 0..Len(base), j \in 0..Len(endpoint) :
        /\ NoTrailingSlash(SubSeq(base, 1, i))
        /\ AllSlashes(SubSeq(base, i + 1, Len(base)))
        /\ AllSlashes(SubSeq(endpoint, 1, j))
        /\ NoLeadingSlash(SubSeq(endpoint, j + 1, Len(endpoint)))
        /\ url = SubSeq(base, 1, i) \o <<"/">>
                    \o SubSeq(endpoint, j + 1, Len(endpoint))

\* C1: for every base URL and endpoint, whatever the number of trailing
\* slashes of the base and leading slashes of the endpoint, the URL built by
\* RESTClient is the base without its trailing slashes, exactly one "/", and
\* the endpoint without its leading slashes.
C1_BuildUrlOneSlash ==
    (kind = "RESTClient" /\ built.some)
        => IsJoined(built.url, base_url, built.endpoint)

\* C1 witness: a base with two trailing slashes and an endpoint with two
\* leading slashes have been joined.
C1_Witness ==
    /\ kind = "RESTClient" /\ built.some
    /\ base_url = <<"a", "/", "/">>
    /\ built.endpoint = <<"/", "/", "a">>
    /\ built.url = <<"a", "/", "a">>

\* C10: the typed clients request base + "/" + endpoint with the endpoint's
\* leading slashes and the base's trailing slashes stripped.
C10_TypedGetStripsBase ==
    (kind \in {"SpaceDevsClient", "SpaceDevsDataClient"} /\ built.some)
        => IsJoined(built.url, base_url, built.endpoint)

---------------------------------------------------------------------------
(* A document on display.                                                  *)

\* The texts of the model's items: a run of "a", with or without a
\* two-byte character before or after it.
WideOrNot == {<<>>, <<"é">>}

TitleTexts ==
    {pre \o Repeat("a", n) \o post :
        pre \in WideOrNot, n \in 0..MaxTitleLen, post \in WideOrNot}

SiteTexts == {Repeat("a", n) : n \in {1, SiteWidth, MaxSiteLen}}

PublishedTexts ==
    {Repeat("a", n) \o post :
        n \in {10, PublishedWidth - 1, PublishedWidth + 1},
        post \in WideOrNot}

\* An article as the server sends it, with the members the table shows.
NewsItem(title, news_site, published_at) ==
    JObj(<<Entry("news_site", JStr(news_site)),
           Entry("published_at", JStr(published_at)),
           Entry("title", JStr(title))>>)

NewsItems ==
    {NewsItem(t, s, p) :
        t \in TitleTexts, s \in SiteTexts, p \in PublishedTexts}

\* Items without the members, with a title that is no string, and an
\* element that is no object.
OddItems ==
    {JObj(<<>>), JObj(<<Entry("title", JNum(<<"1">>))>>), JStr(<<"T">>)}

\* A page of results.
PageOf(items) ==
    JObj(<<Entry("count", JNum(NatToStr(Len(items)))),
           Entry("results", JArr(items))>>)

ShortItem == NewsItem(<<"T">>, <<"N">>, Repeat("a", 10))

\* The documents that are displayed: pages of one item, pages of two, and
\* documents that are no page.
ViewPages ==
    {PageOf(<<i>>) : i \in NewsItems \cup OddItems}
        \cup {PageOf(<<i, ShortItem>>) : i \in OddItems \cup {ShortItem}}
        \cup {PageOf(<<>>)}

ViewOthers ==
    {JNull, JStr(<<"T">>), JArr(<<ShortItem>>), ShortItem, JObj(<<>>),
     JObj(<<Entry("results", JArr(<<ShortItem>>))>>),
     JObj(<<Entry("count", JStr(<<"T">>)), Entry("results", JNull)>>),
     JObj(<<Entry("events", JArr(<<ShortItem>>)),
            Entry("results", JArr(<<JNum(<<"1">>)>>)),
            Entry("title", ShortItem)>>)}

\* The output formats: the three the code names and one it does not.
OutputFormats == {JsonText, TableText, DetailedText, <<"x">>}

GlobalConfig(output_format, max_display_items) ==
    [output_format |-> output_format,
     max_display_items |-> max_display_items]

\* What is on display: every page as a table of up to ten rows, and the
\* pages of two items and the other documents in every format.
Views ==
    {[global_config |->
            GlobalConfig(TableText, Usize(DefaultMaxDisplayItems)),
      data |-> d] : d \in ViewPages}
        \cup {[global_config |-> GlobalConfig(f, AsUsize(n)), data |-> d] :
                f \in OutputFormats, n \in {-1, 0, 1, DefaultMaxDisplayItems},
                d \in ViewOthers
                        \cup {PageOf(<<i, ShortItem>>) : i \in OddItems}}

\* An executor with its global configuration, and a document to display.
InitView ==
    /\ view \in Views
    /\ printed = None
    /\ document = Idle /\ page = Idle
    /\ database = Idle /\ step = Idle
    /\ CrateIdle

\* display_results(endpoint, data).
DisplayResults ==
    /\ ~printed.some
    /\ printed' = Some(display_results(view.global_config, view.data))
    /\ UNCHANGED <<view, serdeVars, dbVars, urlVars, smVars, clVars, exVars>>

NextView == DisplayResults

SpecView == InitView /\ [][NextView]_vars

\* A page has been displayed as a table.
TableShown ==
    /\ printed.some
    /\ view.global_config.output_format = TableText
    /\ view.data.t = "Object"
    /\ ArrayUnder(view.data, "results").some

\* The items of the page that get a row: the objects among the first
\* max_display_items.
RowItems ==
    SelectSeq(Take(ArrayUnder(view.data, "results").v,
                   view.global_config.max_display_items),
              LAMBDA item : item.t = "Object")

\* The title as the claim renders it: the first 27 characters and "..."
\* when it has more than 27 characters, else the title.
TitleAsClaimed(title) ==
    IF Len(title) > 27 THEN SubSeq(title, 1, 27) \o <<".", ".", ".">> ELSE title

\* C11: in table format the row of an item shows its title unchanged when
\* the title has at most 27 characters, and its first 27 characters followed
\* by "..." (30 characters in all) when it has more.
C11_TitleTruncation ==
    TableShown =>
        \A i \in 1..Len(RowItems) :
            LET title == JsonGet(RowItems[i], "title")
            IN (title.some /\ title.v.t = "String") =>
                /\ Len(printed.v.lines) >= i + 2
                /\ Len(TitleAsClaimed(title.v.s)) <= 30
                /\ SubSeq(printed.v.lines[i + 2], 1, 37)
                    = <<" ", " ", "|", " ">> \o PadLeftAligned(TitleAsClaimed(title.v.s), 30)
                        \o <<" ", "|", " ">>

\* C12: in table format every row that is printed is as wide as the header
\* row, whatever the lengths of title, news_site and published_at.
C12_RowWidth ==
    TableShown =>
        \A i \in 1..Len(printed.v.lines) :
            Len(printed.v.lines[i]) = Len(TableHeader)

---------------------------------------------------------------------------
(* The executor's output, end to end.                                      *)

\* The text occurs in the line.
OccursIn(text, line) ==
    \E i \in 0..(Len(line) - Len(text)) :
        SubSeq(line, i + 1, i + Len(text)) = text

\* The lines of a detailed view that open an item block.
ItemHeads(text) ==
    {j \in 1..Len(text) : OccursIn(<<"I", "t", "e", "m", " ">>, text[j])}

\* The executor has exactly one enabled endpoint.
OneEnabledEndpoint ==
    Cardinality({i \in 1..Len(executor.endpoints) :
                    executor.endpoints[i].enabled}) = 1

\* C13: with one enabled endpoint whose server returns
\* {"count":1,"results":[{"title":"T","news_site":"N",
\* "published_at":"2025-01-01"}]}, the detailed-mode executor prints
\* "Total results: 1" and exactly one item block, and that block contains
\* the text "title: T".
C13_DetailedEndToEnd ==
    \A i \in 1..Len(output) :
        (/\ output[i].what = "results"
         /\ output[i].data = JPage
         /\ executor.global_config.output_format = DetailedText
         /\ OneEnabledEndpoint)
        => LET text == output[i].text
           IN /\ \E j \in 1..Len(text) :
                    OccursIn(<<"T", "o", "t", "a", "l", " ", "r", "e", "s", "u", "l", "t", "s", ":", " ", "1">>, text[j])
              /\ Cardinality(ItemHeads(text)) = 1
              /\ \E h \in ItemHeads(text) : \E j \in (h + 1)..Len(text) :
                    OccursIn(<<"title", ":", " ", "T">>, text[j])

\* The page of C13 has been displayed in detailed mode by an executor with
\* one enabled endpoint; it is the i-th entry of the output.
PageDisplayed(i) ==
    /\ output[i].what = "results"
    /\ output[i].data = JPage
    /\ executor.global_config.output_format = DetailedText
    /\ OneEnabledEndpoint

\* C13 (amended): with one enabled endpoint whose server returns the page
\* above, the detailed-mode executor prints "Total results: 1" and exactly
\* one item block, and that block contains the text title: "T", the value
\* in double quotes as JSON writes it.
C13_DetailedQuoted ==
    \A i \in 1..Len(output) :
        PageDisplayed(i)
        => LET text == output[i].text
           IN /\ \E j \in 1..Len(text) :
                    OccursIn(<<"T", "o", "t", "a", "l", " ", "r", "e", "s", "u", "l", "t", "s", ":", " ", "1">>, text[j])
              /\ Cardinality(ItemHeads(text)) = 1
              /\ \E h \in ItemHeads(text) : \E j \in (h + 1)..Len(text) :
                    OccursIn(<<"title", ":", " ", "\"", "T", "\"">>, text[j])

\* C13 witness: the run of an executor with one enabled endpoint is over
\* and the page has been displayed.
C13_Witness ==
    /\ pc = "done"
    /\ \E i \in 1..Len(output) : PageDisplayed(i)

---------------------------------------------------------------------------
(* Paginated<T> and PaginatedResponse<T>: what serde's derived            *)
(* Deserialize makes of a JSON document.  The members of a document are    *)
(* taken in the order they are written, and a key may be written twice.    *)

\* u32::MAX, as the text of a JSON number.
U32MaxText == <<"4", "2", "9", "4", "9", "6", "7", "2", "9", "5">>

RECURSIVE DigitsLeq(_, _)
\* a <= b for two runs of digits of the same length.
DigitsLeq(a, b) ==
    IF Len(a) = 0 THEN TRUE
    ELSE IF DigitVal(a[1]) # DigitVal(b[1])
    THEN DigitVal(a[1]) < DigitVal(b[1])
    ELSE DigitsLeq(Tail(a), Tail(b))

\* The number is an integer from 0 to u32::MAX (JSON writes no leading
\* zeros).
FitsU32(s) ==
    /\ Len(s) > 0 /\ AllDigits(s)
    /\ \/ Len(s) < Len(U32MaxText)
       \/ Len(s) = Len(U32MaxText) /\ DigitsLeq(s, U32MaxText)

InvalidType(expected) == Err(<<"invalid type, expected", expected>>)

\* u32::deserialize; the count is kept as its text.
DeU32(v) ==
    IF v.t = "Number" /\ FitsU32(v.s) THEN Ok(v.s) ELSE InvalidType("u32")

\* String::deserialize.
DeString(v) == IF v.t = "String" THEN Ok(v.s) ELSE InvalidType("a string")

\* Option::<String>::deserialize: null is None.
DeOptionString(v) ==
    IF v.t = "Null" THEN Ok(None)
    ELSE IF v.t = "String" THEN Ok(Some(v.s))
    ELSE InvalidType("a string")

RECURSIVE DeField(_, _, _)

RECURSIVE VisitMap(_, _, _, _)
\* The derived visit_map of a struct from the i-th member on: a member
\* under a field's key is deserialized as the field's type, a second one is
\* an error, any other member is ignored.  acc holds what each field has
\* got so far.
VisitMap(members, i, acc, struct) ==
    IF i > Len(members) THEN Ok(acc)
    ELSE LET k == members[i].k
             got == DeField(struct, k, members[i].v)
         IN IF k \notin DOMAIN acc THEN VisitMap(members, i + 1, acc, struct)
            ELSE IF acc[k].some THEN Err(<<"duplicate field", k>>)
            ELSE IF ~got.ok THEN got
            ELSE VisitMap(members, i + 1,
                          [acc EXCEPT ![k] = Some(got.v)], struct)

RECURSIVE VisitSeq(_, _, _, _, _)
\* The derived visit_seq from the i-th field on: the fields are read from
\* the elements in the order of declaration, and every field needs its
\* element; elements beyond the fields are an error.
VisitSeq(elems, fields, i, acc, struct) ==
    IF i > Len(fields)
    THEN IF Len(elems) > Len(fields) THEN Err(<<"trailing characters">>)
         ELSE Ok(acc)
    ELSE IF i > Len(elems) THEN Err(<<"invalid length", fields[i]>>)
    ELSE LET got == DeField(struct, fields[i], elems[i])
         IN IF ~got.ok THEN got
            ELSE VisitSeq(elems, fields, i + 1,
                          [acc EXCEPT ![fields[i]] = Some(got.v)], struct)

\* deserialize_struct: an object is visited as a map, an array as a
\* sequence, nothing else is a struct.
VisitStruct(v, fields, struct) ==
    LET unset == [f \in {fields[i] : i \in 1..Len(fields)} |-> None]
    IN IF v.t = "Object" THEN VisitMap(v.items, 1, unset, struct)
       ELSE IF v.t = "Array"
       THEN VisitSeq(Elements(v), fields, 1, unset, struct)
       ELSE InvalidType("struct")

MissingField(f) == Err(<<"missing field", f>>)

\* Launch: launch_id is renamed to id; both members are required.
LaunchFields == <<"launch_id", "provider">>

\* Launch::deserialize.
DeLaunch(v) ==
    LET got == VisitStruct(v, LaunchFields, "Launch")
    IN IF ~got.ok THEN got
       ELSE IF ~got.v["launch_id"].some THEN MissingField("launch_id")
       ELSE IF ~got.v["provider"].some THEN MissingField("provider")
       ELSE Ok([id |-> got.v["launch_id"].v,
                provider |-> got.v["provider"].v])

RECURSIVE DeElements(_, _)
\* Vec::<T>::deserialize from the i-th element on, T being Launch: the
\* elements in order, or the error of the first that is no T.
DeElements(elems, i) ==
    IF i > Len(elems) THEN Ok(<<>>)
    ELSE LET head == DeLaunch(elems[i])
             rest == DeElements(elems, i + 1)
         IN IF ~head.ok THEN head
            ELSE IF ~rest.ok THEN rest
            ELSE Ok(<<head.v>> \o rest.v)

\* Vec::<T>::deserialize.
DeVec(v) ==
    IF v.t = "Array" THEN DeElements(Elements(v), 1)
    ELSE InvalidType("a sequence")

\* The fields of Paginated<T> and of PaginatedResponse<T>, as declared.
PaginatedFields == <<"count", "next", "previous", "results">>

\* The deserializer of a field's type: the fields of Launch are Strings,
\* those of Paginated<T> a u32, two Option<String>s and a Vec<T>.
DeField(struct, f, v) ==
    CASE struct = "Launch" -> DeString(v)
      [] struct = "Paginated" /\ f = "count" -> DeU32(v)
      [] struct = "Paginated" /\ f \in {"next", "previous"} ->
            DeOptionString(v)
      [] struct = "Paginated" /\ f = "results" -> DeVec(v)

\* A plausible slip: a field that the document omits is an error whatever
\* its type.
RequiredField(got, f) == IF got[f].some THEN Ok(got[f].v) ELSE MissingField(f)

\* A field of type Option that the document omits is None.
OptionField(got, f) == IF got[f].some THEN Ok(got[f].v) ELSE Ok(None)

\* Paginated::<T>::deserialize and PaginatedResponse::<T>::deserialize.
DePaginated(v) ==
    LET got == VisitStruct(v, PaginatedFields, "Paginated")
        next == OptionField(got.v, "next")
        previous == OptionField(got.v, "previous")
    IN IF ~got.ok THEN got
       ELSE IF ~got.v["count"].some THEN MissingField("count")
       ELSE IF ~next.ok THEN next
       ELSE IF ~previous.ok THEN previous
       ELSE IF ~got.v["results"].some THEN MissingField("results")
       ELSE Ok([count |-> got.v["count"].v, next |-> next.v,
                previous |-> previous.v, results |-> got.v["results"].v])

\* The documents that are deserialized.
JLaunch(id) ==
    JObj(<<Entry("launch_id", JStr(<<id>>)), Entry("provider", JStr(<<"p">>))>>)

ResultElements == {JLaunch("a"), JLaunch("b"), JLaunch("c"), JNum(<<"1">>)}

ResultArrays ==
    {JArr(elems) :
        elems \in UNION {[1..n -> ResultElements] : n \in 0..MaxResults}}

\* What a document has under a key: nothing, or a member.
Absent == <<>>

Under(k, values) == {Absent} \cup {<<Entry(k, v)>> : v \in values}

CountValues ==
    {JNum(<<"0">>), JNum(<<"3">>), JNum(U32MaxText),
     JNum(<<"4", "2", "9", "4", "9", "6", "7", "2", "9", "6">>),
     JNum(<<"-", "1">>), JStr(<<"3">>)}

LinkValues == {JNull, JStr(<<"u">>), JNum(<<"1">>)}

ThreeLaunches == JArr(<<JLaunch("a"), JLaunch("b"), JLaunch("c")>>)

\* Documents with a key twice, a key no field has, the members in another
\* order, the struct or an element written as an array, and no struct.
OddDocuments ==
    {JObj(<<Entry("count", JNum(<<"3">>)), Entry("count", JNum(<<"3">>)),
            Entry("results", ThreeLaunches)>>),
     JObj(<<Entry("results", ThreeLaunches), Entry("extra", JNull),
            Entry("extra", JNull), Entry("count", JNum(<<"3">>))>>),
     JObj(<<Entry("count", JNum(<<"1">>)),
            Entry("results",
                  JArr(<<JArr(<<JStr(<<"a">>), JStr(<<"p">>)>>)>>))>>),
     JArr(<<JNum(<<"3">>), JNull, JStr(<<"u">>), ThreeLaunches>>),
     JArr(<<JNum(<<"3">>), ThreeLaunches>>),
     JArr(<<JNum(<<"3">>), JNull, JNull, ThreeLaunches, JNull>>),
     JNull}

Documents ==
    {JObj(c \o n \o p \o r) :
        c \in Under("count", CountValues),
        n \in Under("next", LinkValues),
        p \in Under("previous", {JNull, JStr(<<"u">>)}),
        r \in Under("results", ResultArrays \cup {JNull})}
        \cup OddDocuments

\* A response body, before it is deserialized.
InitSerde ==
    /\ document \in Documents
    /\ page = None
    /\ view = Idle /\ printed = Idle
    /\ database = Idle /\ step = Idle
    /\ CrateIdle

\* response.json::<Paginated<T>>().
FromJson ==
    /\ ~page.some
    /\ page' = Some(DePaginated(document))
    /\ UNCHANGED <<document, viewVars, dbVars, urlVars, smVars, clVars, exVars>>

NextSerde == FromJson

SpecSerde == InitSerde /\ [][NextSerde]_vars

\* The members of the document under the key.
MembersUnder(k) ==
    SelectSeq(document.items, LAMBDA e : e.k = k)

\* The document omits the key or gives null under it.
OmittedOrNull(k) ==
    \A i \in 1..Len(MembersUnder(k)) : MembersUnder(k)[i].v = JNull

\* The element of a results array is a launch: an object with a string
\* under launch_id and another under provider.
IsLaunch(v) ==
    /\ v.t = "Object"
    /\ \A k \in {"launch_id", "provider"} :
            /\ Len(SelectSeq(v.items, LAMBDA e : e.k = k)) = 1
            /\ JsonGet(v, k).v.t = "String"

\* The document is a page: an object with one count from 0 to u32::MAX and
\* one results array of launches, where next and previous are each written
\* at most once and are then null or a string.
IsPage ==
    /\ document.t = "Object"
    /\ Len(MembersUnder("count")) = 1
    /\ MembersUnder("count")[1].v.t = "Number"
    /\ FitsU32(MembersUnder("count")[1].v.s)
    /\ Len(MembersUnder("results")) = 1
    /\ MembersUnder("results")[1].v.t = "Array"
    /\ \A e \in {MembersUnder("results")[1].v.items[i].v :
                    i \in 1..Len(MembersUnder("results")[1].v.items)} :
            IsLaunch(e)
    /\ \A k \in {"next", "previous"} :
            /\ Len(MembersUnder(k)) <= 1
            /\ \A i \in 1..Len(MembersUnder(k)) :
                    MembersUnder(k)[i].v.t \in {"Null", "String"}

\* C14: deserializing a paginated envelope keeps every element of results
\* in order, next and previous are absent whenever the document omits them
\* or gives null, and a page that omits next or previous is not rejected.
C14_PaginatedDeserialize ==
    (page.some /\ document.t = "Object") =>
        /\ IsPage => page.v.ok
        /\ page.v.ok =>
            LET written == MembersUnder("results")[1].v.items
                results == page.v.v.results
            IN /\ Len(results) = Len(written)
               /\ \A i \in 1..Len(written) :
                    written[i].v.t = "Object" =>
                        /\ results[i].id = JsonGet(written[i].v, "launch_id").v.s
                        /\ results[i].provider
                            = JsonGet(written[i].v, "provider").v.s
               /\ OmittedOrNull("next") => ~page.v.v.next.some
               /\ OmittedOrNull("previous") => ~page.v.v.previous.some

\* C14 witness: {"count":3,"results":[a,b,c]} without next and previous
\* has been deserialized, to three results and no links.
C14_Witness ==
    /\ page.some /\ page.v.ok
    /\ document = JObj(<<Entry("count", JNum(<<"3">>)),
                         Entry("results", ThreeLaunches)>>)
    /\ Len(page.v.v.results) = 3
    /\ page.v.v.results[3].id = <<"c">>
    /\ ~page.v.v.next.some /\ ~page.v.v.previous.some

---------------------------------------------------------------------------
(* The migration m20251110_032202_create_space_devs_base.                  *)
(*                                                                         *)
(* The database is the set of its tables, each with the tables its foreign *)
(* keys reference, and the set of its indexes.  Whether it refuses to drop *)
(* a table that a foreign key references, and to create one whose foreign  *)
(* key references no table, depends on the backend: both kinds are         *)
(* modelled.  Any statement may also fail for a reason of the connection.  *)

CreateTable(name, refs) == [stmt |-> "create_table", name |-> name,
                            refs |-> refs, on |-> ""]

CreateIndex(name, on) == [stmt |-> "create_index", name |-> name,
                          refs |-> {}, on |-> on]

DropTable(name) == [stmt |-> "drop_table", name |-> name, refs |-> {},
                    on |-> ""]

\* A plausible slip: the join tables of the authors are created before the
\* content tables they reference.
UpStatementsJoinFirst ==
    <<CreateTable("authors", {}),
      CreateTable("author_socials", {"authors"}),
      CreateTable("launches", {}),
      CreateTable("events", {}),
      CreateTable("article_authors", {"articles", "authors"}),
      CreateTable("blog_authors", {"blogs", "authors"}),
      CreateTable("report_authors", {"reports", "authors"}),
      CreateTable("articles", {}),
      CreateTable("blogs", {}),
      CreateTable("reports", {}),
      CreateTable("article_launches", {"articles", "launches"}),
      CreateTable("blog_launches", {"blogs", "launches"}),
      CreateTable("report_launches", {"reports", "launches"}),
      CreateTable("article_events", {"articles", "events"}),
      CreateTable("blog_events", {"blogs", "events"}),
      CreateTable("report_events", {"reports", "events"}),
      CreateIndex("idx-article_authors-author_id", "article_authors"),
      CreateIndex("idx-blog_authors-author_id", "blog_authors"),
      CreateIndex("idx-report_authors-author_id", "report_authors")>>

\* Migration::up: the statements in the order they are awaited.
UpStatements ==
    <<CreateTable("authors", {}),
      CreateTable("author_socials", {"authors"}),
      CreateTable("launches", {}),
      CreateTable("events", {}),
      CreateTable("articles", {}),
      CreateTable("blogs", {}),
      CreateTable("reports", {}),
      CreateTable("article_authors", {"articles", "authors"}),
      CreateTable("blog_authors", {"blogs", "authors"}),
      CreateTable("report_authors", {"reports", "authors"}),
      CreateTable("article_launches", {"articles", "launches"}),
      CreateTable("blog_launches", {"blogs", "launches"}),
      CreateTable("report_launches", {"reports", "launches"}),
      CreateTable("article_events", {"articles", "events"}),
      CreateTable("blog_events", {"blogs", "events"}),
      CreateTable("report_events", {"reports", "events"}),
      CreateIndex("idx-article_authors-author_id", "article_authors"),
      CreateIndex("idx-blog_authors-author_id", "blog_authors"),
      CreateIndex("idx-report_authors-author_id", "report_authors")>>

\* A plausible slip: the content tables are dropped before the join tables
\* that reference them.
DownStatementsContentFirst ==
    <<DropTable("reports"), DropTable("blogs"), DropTable("articles"),
      DropTable("report_events"), DropTable("blog_events"),
      DropTable("article_events"), DropTable("report_launches"),
      DropTable("blog_launches"), DropTable("article_launches"),
      DropTable("report_authors"), DropTable("blog_authors"),
      DropTable("article_authors"), DropTable("events"),
      DropTable("launches"), DropTable("author_socials"),
      DropTable("authors")>>

\* Migration::down: the statements in the order they are awaited.
DownStatements ==
    <<DropTable("report_events"), DropTable("blog_events"),
      DropTable("article_events"), DropTable("report_launches"),
      DropTable("blog_launches"), DropTable("article_launches"),
      DropTable("report_authors"), DropTable("blog_authors"),
      DropTable("article_authors"), DropTable("reports"),
      DropTable("blogs"), DropTable("articles"), DropTable("events"),
      DropTable("launches"), DropTable("author_socials"),
      DropTable("authors")>>

\* The names of the tables of the database.
TableNames(db) == {t.name : t \in db.tables}

\* The tables of the database with a foreign key that references name.
Referencing(db, name) == {t \in db.tables : name \in t.refs}

DbErr(what, name) == Err(<<what, name>>)

\* CREATE TABLE IF NOT EXISTS: nothing happens when the table exists.
ExecCreateTable(db, s) ==
    IF s.name \in TableNames(db) THEN Ok(db)
    ELSE IF db.enforces /\ ~(s.refs \subseteq TableNames(db))
    THEN DbErr("referenced table does not exist", s.name)
    ELSE Ok([db EXCEPT !.tables = @ \cup {[name |-> s.name,
                                           refs |-> s.refs]}])

\* CREATE INDEX, without IF NOT EXISTS.
ExecCreateIndex(db, s) ==
    IF s.on \notin TableNames(db) THEN DbErr("no such table", s.on)
    ELSE IF s.name \in {i.name : i \in db.indexes}
    THEN DbErr("index already exists", s.name)
    ELSE Ok([db EXCEPT !.indexes = @ \cup {[name |-> s.name, on |-> s.on]}])

\* DROP TABLE, without IF EXISTS and without CASCADE; the indexes of the
\* table go with it.
ExecDropTable(db, s) ==
    IF s.name \notin TableNames(db) THEN DbErr("no such table", s.name)
    ELSE IF db.enforces /\ Referencing(db, s.name) # {}
    THEN DbErr("table is referenced by a foreign key", s.name)
    ELSE Ok([db EXCEPT !.tables = {t \in @ : t.name # s.name},
                       !.indexes = {i \in @ : i.on # s.name}])

\* SchemaManager::create_table, create_index and drop_table.
Exec(db, s) ==
    CASE s.stmt = "create_table" -> ExecCreateTable(db, s)
      [] s.stmt = "create_index" -> ExecCreateIndex(db, s)
      [] s.stmt = "drop_table" -> ExecDropTable(db, s)

\* The statements of a direction.
Statements(op) == IF op = "up" THEN UpStatements ELSE DownStatements

\* An empty database, of a backend that enforces foreign keys or of one
\* that does not; no migration runs.
InitMigration ==
    /\ \E enforces \in BOOLEAN :
            database = [enforces |-> enforces, tables |-> {},
                        indexes |-> {}]
    /\ step = [op |-> "none", at |-> 0, result |-> None]
    /\ view = Idle /\ printed = Idle
    /\ document = Idle /\ page = Idle
    /\ CrateIdle

\* Migration::up or Migration::down is called; none is running.
Call(op) ==
    /\ step.op = "none" \/ step.result.some
    /\ step' = [op |-> op, at |-> 1, result |-> None]
    /\ UNCHANGED <<database, viewVars, serdeVars, urlVars, smVars, clVars,
                   exVars>>

\* The next statement is awaited: its error is returned with "?", and so
\* is the error of a lost connection.
Await(lost) ==
    /\ step.op \in {"up", "down"} /\ ~step.result.some
    /\ step.at <= Len(Statements(step.op))
    /\ LET done == IF lost THEN DbErr("connection lost", "")
                   ELSE Exec(database, Statements(step.op)[step.at])
       IN IF done.ok
          THEN /\ database' = done.v
               /\ step' = [step EXCEPT !.at = @ + 1]
          ELSE /\ database' = database
               /\ step' = [step EXCEPT !.result = Some(done)]
    /\ UNCHANGED <<viewVars, serdeVars, urlVars, smVars, clVars, exVars>>

\* After the last statement: Ok(()).
Return ==
    /\ step.op \in {"up", "down"} /\ ~step.result.some
    /\ step.at > Len(Statements(step.op))
    /\ step' = [step EXCEPT !.result = Some(Ok(<<>>))]
    /\ UNCHANGED <<database, viewVars, serdeVars, urlVars, smVars, clVars,
                   exVars>>

NextMigration ==
    \/ Call("up")
    \/ Call("down")
    \/ \E lost \in BOOLEAN : Await(lost)
    \/ Return

SpecMigration == InitMigration /\ [][NextMigration]_vars

\* The kinds of table the claims tell apart.
ContentTables == {"articles", "blogs", "reports"}

LookupTables == {"authors", "author_socials", "launches", "events"}

JoinTables ==
    {"article_authors", "blog_authors", "report_authors",
     "article_launches", "blog_launches", "report_launches",
     "article_events", "blog_events", "report_events"}

\* The tables that a step removes from the database.
Dropped == TableNames(database) \ TableNames(database')

\* A step removes tables only in reverse dependency order: no table that is
\* left references a removed one, the join tables are gone before a content
\* table goes, the content tables before a lookup table goes, and
\* author_socials before authors.
DropsInOrder ==
    \A name \in Dropped :
        /\ Referencing(database', name) = {}
        /\ name \in ContentTables =>
                TableNames(database') \cap JoinTables = {}
        /\ name \in LookupTables =>
                TableNames(database') \cap (JoinTables \cup ContentTables) = {}
        /\ name = "authors" => "author_socials" \notin TableNames(database')

\* down has returned Ok(()).
DownComplete ==
    /\ step.op = "down"
    /\ step.result.some
    /\ step.result.v.ok

\* C15: the down migration drops the 16 tables in strict reverse dependency
\* order (the nine join tables, then articles, blogs and reports, then the
\* lookup tables, author_socials before authors); no table is dropped while
\* a table that still exists has a foreign key referencing it; after a
\* complete down none of the tables created by up remains.
C15_DownOrder ==
    /\ [][DropsInOrder]_vars
    /\ [](DownComplete =>
            /\ step.at = 17
            /\ TableNames(database)
                \cap {UpStatements[i].name : i \in 1..16} = {})

\* C15 witness: a down that dropped all 16 tables has returned.
C15_Witness ==
    /\ DownComplete
    /\ step.at = Len(DownStatements) + 1
    /\ database.tables = {}

---------------------------------------------------------------------------
(* A SchemaManager and the documents loaded into it.                       *)

\* [x] limit = { type = "integer", default = 10, description = "d" }
QueryTableShaped ==
    TTable(<<Entry("limit",
                   TTable(<<Entry("default", TInt(10)),
                            Entry("description", TStr(<<"d">>)),
                            Entry("type",
                                  TStr(<<"i", "n", "t", "e", "g", "e", "r">>))
                          >>))>>)

\* Documents whose a.query_params holds a parameter in the table shape, and
\* one in the table shape beside one that is a scalar.
ShapedConfigs ==
    {TTable(<<Entry(<<"a">>, EndpointTable),
              Entry(<<"a", ".query_params">>, QueryTableShaped)>>),
     TTable(<<Entry(<<"a">>, EndpointTable),
              Entry(<<"a", ".query_params">>,
                    TTable(QueryTableShaped.tab
                            \o <<Entry("ordering", TStr(<<"-", "a">>))>>))>>)}

\* [x] b = true, f = 1.5, i = 10, s = "x", s10 = "10", st = "true",
\* w = 1.0: a query parameter of every scalar type, a whole-number float
\* and strings that read as a number and as a boolean.
QueryTableScalars ==
    TTable(<<Entry("b", TBool(TRUE)),
             Entry("f", TFloat(15, 1)),
             Entry("i", TInt(10)),
             Entry("s", TStr(<<"x">>)),
             Entry("s10", TStr(<<"1", "0">>)),
             Entry("st", TStr(TrueText)),
             Entry("w", TFloat(10, 1))>>)

\* A document whose a.query_params holds those scalars.
ScalarConfigs ==
    {TTable(<<Entry(<<"a">>, EndpointTable),
              Entry(<<"a", ".query_params">>, QueryTableScalars)>>)}

\* The documents of a first load.
LoadConfigs == Configs \cup ShapedConfigs \cup ScalarConfigs

\* The documents of a later load: one that brings the schema a again, one
\* that brings another, one that brings none.
ReloadConfigs ==
    {TTable(<<Entry(<<"a">>, SchemaTable),
              Entry(<<"a", ".schema">>, SchemaTable)>>),
     TTable(<<Entry(<<"b">>, EndpointTable)>>),
     TTable(<<Entry(<<"a">>, TStr(<<"x">>)),
              Entry(<<"config">>, EndpointTable)>>)}

\* SchemaManager::new; ret tells the last load: the document, the schema
\* map before it and what it returned.
InitLoad ==
    /\ schemas = EmptyMap
    /\ ret = [op |-> "new", loads |-> 0, config |-> TTable(<<>>),
              before |-> EmptyMap, res |-> Ok(<<>>)]
    /\ kind = Idle /\ base_url = Idle /\ built = Idle
    /\ client = Idle /\ call = Idle
    /\ executor = Idle /\ pc = Idle /\ idx = Idle
    /\ requests = Idle /\ output = Idle /\ outcome = Idle
    /\ OffIdle

\* SchemaManager::load_from_toml_value(config): Ok(()) on every path.
LoadConfig(config) ==
    /\ ret.loads < MaxLoads
    /\ schemas' = load_from_toml_value(schemas, config)
    /\ ret' = [op |-> "load", loads |-> ret.loads + 1, config |-> config,
               before |-> schemas, res |-> Ok(<<>>)]
    /\ UNCHANGED <<offVars, urlVars, clVars, exVars>>

NextLoad ==
    \/ \E config \in LoadConfigs : ret.loads = 0 /\ LoadConfig(config)
    \/ \E config \in ReloadConfigs : ret.loads > 0 /\ LoadConfig(config)

SpecLoad == InitLoad /\ [][NextLoad]_vars

\* The names that are reserved or that mark a section of another entry.
ReservedNames == {<<"types">>, <<"config">>}

SectionMarks == {".schema", ".query_params", ".nested_fields"}

\* The name is that of an entry of its own: not reserved, no section.
OwnName(name) ==
    /\ name \notin ReservedNames
    /\ \A i \in 1..Len(name) : name[i] \notin SectionMarks

\* The top-level entries of the document of the last load.
LoadedEntries == {ret.config.tab[i] : i \in 1..Len(ret.config.tab)}

\* The names of the entries that yield a schema: the table-shaped entries
\* of their own.
Yielding == {e.k : e \in {x \in LoadedEntries : OwnName(x.k) /\ IsTable(x.v)}}

\* C16: after load the manager holds no schema named "types" or "config"
\* and none whose name contains ".schema", ".query_params" or
\* ".nested_fields"; every other table-shaped top-level entry yields exactly
\* one schema, stored under the entry's name, and no other entry yields
\* one.
C16_LoadSkips ==
    ret.op = "load" =>
        /\ \A name \in DOMAIN schemas : OwnName(name)
        /\ \A name \in Yielding : name \in DOMAIN schemas
        /\ \A name \in DOMAIN schemas : schemas[name].name = name
        /\ DOMAIN schemas = DOMAIN ret.before \cup Yielding
        /\ \A name \in DOMAIN ret.before \ Yielding :
                schemas[name] = ret.before[name]

\* C16 witness: a document with a table under a section name and a
\* table-shaped entry of its own has been loaded.
C16_Witness ==
    /\ ret.op = "load" /\ ret.loads = 1
    /\ \E e \in LoadedEntries : e.k = <<"a", ".nested_fields">> /\ IsTable(e.v)
    /\ \E e \in LoadedEntries : e.k = <<"b">> /\ IsTable(e.v)
    /\ DOMAIN schemas = {<<"b">>}

\* The query parameter in the table shape that the last document declares
\* for the schema a, if it does.
ShapedLimit ==
    LET section == TableGet(ret.config.tab, <<"a", ".query_params">>)
        param == IF section.some /\ IsTable(section.v)
                 THEN TableGet(section.v.tab, "limit")
                 ELSE None
    IN IF param.some /\ IsTable(param.v) THEN param ELSE None

\* C17: a query parameter written as a table with type, default and
\* description under <name>.query_params becomes a declared query parameter
\* of the schema <name> with that type, default and description, so that
\* build_query_string emits its default when the caller leaves it out.
C17_TableShapedParam ==
    (/\ ret.op = "load"
     /\ <<"a">> \in Yielding
     /\ ShapedLimit.some)
    => /\ "limit" \in DOMAIN schemas[<<"a">>].query_params
       /\ LET def == schemas[<<"a">>].query_params["limit"]
              given == ShapedLimit.v.tab
          IN /\ def.param_type = TableGet(given, "type").v.s
             /\ def.default = Some(QInteger(TableGet(given, "default").v.n))
             /\ def.description = Some(TableGet(given, "description").v.s)
       /\ \E order \in QueryOrders(schemas, <<"a">>) :
            LET built_string ==
                    build_query_string(schemas, <<"a">>, EmptyMap, <<>>, order)
            IN /\ built_string.ok
               /\ OccursIn(<<"limit", "=", "1", "0">>, built_string.v)

\* The <name>.query_params tables of the last document whose <name> is an
\* entry that yields a schema.
QuerySections ==
    {x \in LoadedEntries :
        /\ Len(x.k) = 2 /\ x.k[2] = ".query_params"
        /\ <<x.k[1]>> \in Yielding
        /\ IsTable(x.v)}

\* The query parameters of the last document that are malformed, each with
\* its schema: here the ones whose value is an array.
MalformedParams ==
    UNION {{<<x.k[1], x.v.tab[i].k>> :
                i \in {j \in 1..Len(x.v.tab) : x.v.tab[j].v.t = "Array"}} :
            x \in QuerySections}

\* C18: when a <name>.query_params entry holds a malformed parameter
\* definition, such as an array, load fails, with an error that names the
\* parameter.
C18_MalformedParamFails ==
    (ret.op = "load" /\ MalformedParams # {})
    => /\ ~ret.res.ok
       /\ \E m \in MalformedParams : OccursIn(<<m[2]>>, ret.res.err)

---------------------------------------------------------------------------
(* An executor and the config section of its configuration.                *)

\* What the config section may say of output_format: nothing, one of the
\* three formats, another string, or an integer.
FormatEntries ==
    {<<>>} \cup {<<Entry("output_format", v)>> :
                    v \in {TStr(f) : f \in OutputFormats} \cup {TInt(5)}}

\* What it may say of max_display_items: nothing, an integer, a string or
\* a float.
ItemsEntries ==
    {<<>>} \cup {<<Entry("max_display_items", v)>> :
                    v \in {TInt(0), TInt(1), TInt(-1), TStr(<<"1">>),
                           TFloat(25, 1)}}

\* The config entry of a document: a table, or a string.
ConfigSections ==
    {TTable(i \o f) : i \in ItemsEntries, f \in FormatEntries}
        \cup {TStr(<<"x">>)}

\* Documents with an enabled and a disabled endpoint, without a config
\* entry and with each of the config entries.
GlobalConfigDocs ==
    {TTable(<<Entry(<<"a">>, EndpointTable),
              Entry(<<"b">>, DisabledEndpointTable)>> \o c) :
        c \in {<<>>} \cup {<<Entry(<<"config">>, s)>> : s \in ConfigSections}}

\* APIExecutor::from_config_file on such a document, then the call of
\* execute_all.
InitGlobal ==
    /\ \E config \in GlobalConfigDocs : executor = from_config_file(config)
    /\ pc = "start"
    /\ idx = 0
    /\ requests = <<>>
    /\ output = <<>>
    /\ outcome = None
    /\ kind = Idle /\ base_url = Idle /\ built = Idle
    /\ schemas = Idle /\ ret = Idle
    /\ client = Idle /\ call = Idle
    /\ OffIdle

SpecGlobal == InitGlobal /\ [][Next]_vars

\* The config section of a document when it is a table, else no entries.
ConfigEntries(config) ==
    LET section == TableGet(config.tab, <<"config">>)
    IN IF section.some /\ section.v.t = "Table" THEN section.v.tab ELSE <<>>

\* The output format the claim gives a document: the configured string,
\* "detailed" when there is none.
FormatAsClaimed(config) ==
    LET v == TableGet(ConfigEntries(config), "output_format")
    IN IF v.some /\ v.v.t = "String" THEN v.v.s ELSE DetailedText

\* The max_display_items the claim gives a document: the configured
\* integer, 10 when there is none.
ItemsAsClaimed(config) ==
    LET v == TableGet(ConfigEntries(config), "max_display_items")
    IN IF v.some /\ v.v.t = "Integer" THEN v.v.n ELSE 10

\* C19: the executor's global configuration has output_format "detailed"
\* and max_display_items 10 when there is no config section or the key is
\* missing or of the wrong type, and carries the configured values
\* otherwise; an output_format other than "json" and "table" is rendered as
\* the detailed view.
C19_GlobalConfigDefaults ==
    \A config \in GlobalConfigDocs :
        executor = from_config_file(config) =>
            /\ executor.global_config.output_format = FormatAsClaimed(config)
            /\ executor.global_config.max_display_items
                = Usize(ItemsAsClaimed(config))
            /\ \A i \in 1..Len(output) :
                (/\ output[i].what = "results"
                 /\ FormatAsClaimed(config) \notin {JsonText, TableText})
                => output[i].text
                    = display_detailed(executor.global_config,
                                       output[i].data).lines

---------------------------------------------------------------------------
(* execute_all: one request at a time.                                     *)

\* The places of the output where a request was announced.
Started == {k \in 1..Len(output) : output[k].what = "Fetching data from"}

\* The request announced at place k has its result or its error printed
\* right after the announcement.
Answered(k) ==
    /\ k < Len(output)
    /\ output[k + 1].what \in {"results", "Error fetching"}
    /\ output[k + 1].name = output[k].name

\* The requests in flight: announced, and neither result nor error printed.
InFlight == {k \in Started : ~Answered(k)}

\* The names of the enabled endpoints, in endpoint-list order.
EnabledNames ==
    LET enabled == SelectSeq(executor.endpoints, LAMBDA e : e.enabled)
    IN [i \in 1..Len(enabled) |-> enabled[i].name]

\* The names of the endpoints whose request was announced, in the order of
\* the announcements.
StartedNames ==
    LET lines == SelectSeq(output,
                           LAMBDA l : l.what = "Fetching data from")
    IN [i \in 1..Len(lines) |-> lines[i].name]

\* C20: execute_all takes the enabled endpoints one at a time in
\* endpoint-list order; a request is started only when every earlier request
\* has ended and its result or error is printed, so that at most one request
\* is in flight, and it is the one started last.
C20_OneAtATime ==
    /\ Cardinality(InFlight) <= 1
    /\ \A k \in InFlight : k = Len(output) /\ pc = "await"
    /\ Len(requests) <= Cardinality(Started)
    /\ Len(StartedNames) <= Len(EnabledNames)
    /\ StartedNames = SubSeq(EnabledNames, 1, Len(StartedNames))

\* The request of a second enabled endpoint is in flight; the first one's
\* has ended with an error, which is printed.
C20_Witness ==
    /\ pc = "await"
    /\ Len(requests) = 2
    /\ Cardinality(Started) = 2
    /\ Cardinality(InFlight) = 1
    /\ \E k \in Started : Answered(k) /\ output[k + 1].what = "Error fetching"

---------------------------------------------------------------------------
(* A second load into the same schema manager.                             *)

\* The keys of a section of the last document, none when the section is
\* absent or not a table.
SectionKeys(name, mark) ==
    LET section == TableGet(ret.config.tab, name \o <<mark>>)
    IN IF section.some /\ IsTable(section.v)
       THEN {section.v.tab[i].k : i \in 1..Len(section.v.tab)}
       ELSE {}

\* The keys of nested_fields in the <name>.schema section of the last
\* document.
NestedKeys(name) ==
    LET section == TableGet(ret.config.tab, name \o <<".schema">>)
        nested == IF section.some /\ IsTable(section.v)
                  THEN TableGet(section.v.tab, "nested_fields")
                  ELSE None
    IN IF nested.some /\ IsTable(nested.v)
       THEN {nested.v.tab[i].k : i \in 1..Len(nested.v.tab)}
       ELSE {}

\* The schema stored under name holds nothing but what the last document
\* says of it.
FromLastLoad(name) ==
    LET schema == schemas[name]
    IN /\ \A i \in 1..Len(schema.fields) :
            schema.fields[i].name \in SectionKeys(name, ".schema")
       /\ DOMAIN schema.nested_fields \subseteq NestedKeys(name)
       /\ DOMAIN schema.query_params
            \subseteq SectionKeys(name, ".query_params")
       /\ schema = load_from_toml_value(EmptyMap, ret.config)[name]

\* C21: after a second load into the same manager, every name the second
\* document defines holds the schema of the second document alone (fields,
\* nested fields and query parameters, nothing merged from the first load),
\* and every schema whose name only the first document defines is as it was.
C21_ReloadReplaces ==
    (ret.op = "load" /\ ret.loads = 2)
    => /\ \A name \in Yielding : name \in DOMAIN schemas /\ FromLastLoad(name)
       /\ \A name \in DOMAIN ret.before \ Yielding :
            /\ name \in DOMAIN schemas
            /\ schemas[name] = ret.before[name]

\* C21 witness: the first load gave the schema a query parameters and no
\* fields; the second gives it fields and no query parameters.
C21_Witness ==
    /\ ret.op = "load" /\ ret.loads = 2
    /\ <<"a">> \in Yielding
    /\ <<"a">> \in DOMAIN ret.before
    /\ ret.before[<<"a">>].query_params # EmptyMap
    /\ ret.before[<<"a">>].fields = <<>>
    /\ schemas[<<"a">>].query_params = EmptyMap
    /\ schemas[<<"a">>].fields # <<>>

---------------------------------------------------------------------------
(* Who writes the schema map: the manager, a client and an executor in use. *)

\* SchemaManager::get_schema.
GetSchema(name) ==
    /\ Loading
    /\ ret' = [op |-> "get_schema", name |-> name,
               res |-> get_schema(schemas, name)]
    /\ schemas' = get_schema_leaves(schemas, name)
    /\ UNCHANGED <<offVars, urlVars, clVars, exVars>>

\* SchemaManager::list_schemas: the names, in the order the map iterates.
ListSchemas ==
    /\ Loading
    /\ \E order \in Orders(DOMAIN schemas) :
            ret' = [op |-> "list_schemas", res |-> order]
    /\ UNCHANGED <<offVars, schemas, urlVars, clVars, exVars>>

\* A RESTClient in use; kind tells that it is one.
InitRestClient ==
    /\ client \in Clients
    /\ call = [op |-> "none"]
    /\ kind = "RESTClient"
    /\ base_url = Idle /\ built = Idle
    /\ schemas = Idle /\ ret = Idle
    /\ executor = Idle /\ pc = Idle /\ idx = Idle
    /\ requests = Idle /\ output = Idle /\ outcome = Idle
    /\ OffIdle

\* A schema manager of its own, a client, or an executor.
InitFrame == InitSchema \/ InitRestClient \/ Init

\* The manager of its own is in use, the client is, the executor is.
ManagerInUse == pc = Idle /\ kind = Idle

ClientInUse == pc = Idle /\ kind = "RESTClient"

ExecutorInUse == pc # Idle

NextFrame ==
    \/ ManagerInUse /\ NextSchema
    \/ ManagerInUse /\ \E name \in SchemaNames : GetSchema(name)
    \/ ManagerInUse /\ ListSchemas
    \/ ClientInUse /\ NextClient
    \/ ExecutorInUse /\ Next

SpecFrame == InitFrame /\ [][NextFrame]_vars

\* A step leaves the schema map in use as it is: the set of schemas and each
\* schema's fields, nested fields and query parameters.
MapKept ==
    IF ExecutorInUse
    THEN executor'.schema_manager = executor.schema_manager
    ELSE IF ClientInUse
         THEN client'.schema_manager = client.schema_manager
         ELSE schemas' = schemas

\* C22: only load writes the schema map. apply_schema, build_query_string,
\* get_schema, list_schemas, every RESTClient operation and every step of
\* an executor run leave it as it is, whether they succeed or fail; an
\* executor's map is the same from before the first request on.
C22_OnlyLoadWrites ==
    [][(ManagerInUse /\ ret'.op = "load") \/ MapKept]_vars

\* C22 witness: apply_schema has failed on a manager that holds schemas.
C22_Witness ==
    /\ ManagerInUse
    /\ ret.op = "apply_schema"
    /\ ~ret.res.ok
    /\ DOMAIN schemas # {}

---------------------------------------------------------------------------
(* The detailed view of a page: how many items it shows.                   *)

\* A paginated-shaped document has been displayed in detailed mode.
DetailedPageShown ==
    /\ printed.some
    /\ view.global_config.output_format = DetailedText
    /\ view.data.t = "Object"
    /\ JsonHasKey(view.data, "results") /\ JsonHasKey(view.data, "count")
    /\ ArrayUnder(view.data, "results").some

\* The printed lines that open an item block: "    Item <i>:".
BlockHeads ==
    {j \in 1..Len(printed.v.lines) :
        /\ Len(printed.v.lines[j]) > 9
        /\ SubSeq(printed.v.lines[j], 1, 9) = <<" ", " ", " ", " ", "I", "t", "e", "m", " ">>}

\* The printed lines that give the size of an array under key.
SizeLines(key) ==
    {j \in 1..Len(printed.v.lines) :
        OccursIn(<<key>> \o <<":", " ", "[">>, printed.v.lines[j])}

Min(a, b) == IF a <= b THEN a ELSE b

\* C23: in detailed mode the number of item blocks printed for a
\* paginated-shaped response is min(number of results, max_display_items)
\* and never more than the configured max_display_items, for every integer
\* max_display_items including zero and negative ones; an array under
\* events or launches is printed as a size only, never expanded.
C23_MaxDisplayItems ==
    /\ DetailedPageShown =>
        LET results == ArrayUnder(view.data, "results").v
            configured == view.global_config.max_display_items.n
        IN /\ Cardinality(BlockHeads) = Min(Len(results), configured)
           /\ Cardinality(BlockHeads) <= configured
    /\ (printed.some /\ view.global_config.output_format = DetailedText) =>
        \A key \in SizeOnlyKeys : \A j \in SizeLines(key) :
            \/ j = Len(printed.v.lines)
            \/ ~OccursIn(<<"F", "i", "r", "s", "t", " ", "i", "t", "e", "m", ":">>, printed.v.lines[j + 1])

---------------------------------------------------------------------------
(* Query parameters given as bare scalars.                                 *)

\* The scalar types of the configuration, each with the type tag and the
\* variant of the default the claim derives from it.
ScalarTags ==
    [String |-> "String", Integer |-> "i64", Float |-> "f64",
     Boolean |-> "bool"]

\* The query parameters of the last document that are bare scalars, each
\* with the schema it belongs to.
ScalarParams ==
    UNION {{[schema |-> <<x.k[1]>>, param |-> x.v.tab[i]] :
                i \in {j \in 1..Len(x.v.tab) :
                        x.v.tab[j].v.t \in DOMAIN ScalarTags}} :
            x \in QuerySections}

\* C24: a query parameter given as a bare scalar is stored with a type tag
\* and a default that are both derived from the value's text by trying
\* integer, float, boolean, string in that order, and the derived type is the
\* scalar's own configuration type: i64/Integer for an integer, f64/Float
\* for a float (1.0 included), bool/Boolean for a boolean and String/String
\* for a string ("10" and "true" included); tag and default agree.
C24_ScalarTypeInference ==
    ret.op = "load" =>
        \A p \in ScalarParams :
            /\ p.param.k \in DOMAIN schemas[p.schema].query_params
            /\ LET def == schemas[p.schema].query_params[p.param.k]
                   text == toml_value_to_string(p.param.v).v
               IN /\ def.param_type = infer_param_type(text)
                  /\ def.default = Some(string_to_param_value(text))
                  /\ def.param_type = ScalarTags[p.param.v.t]
                  /\ def.default.v.t = p.param.v.t

---------------------------------------------------------------------------
(* execute_all: the requests of one run.                                   *)

\* The endpoints among the first n of the list whose enabled flag is true.
EnabledUpTo(n) ==
    {i \in 1..Len(executor.endpoints) :
        i <= n /\ executor.endpoints[i].enabled}

\* C25: in one run of execute_all exactly one GET is issued for each
\* endpoint whose enabled flag is true, without a retry and without a second
\* page, and none for an endpoint whose flag is false, be it configured so
\* or for want of a boolean enabled key.
C25_OneGetPerEnabled ==
    /\ pc \in {"loop", "await", "done"} =>
            Len(requests) <= Cardinality(EnabledUpTo(idx))
    /\ pc = "done" =>
            Len(requests) = Cardinality(EnabledUpTo(Len(executor.endpoints)))

---------------------------------------------------------------------------
(* A RESTClient asked for a schema its manager does not hold.              *)

\* The operations of a RESTClient that take a schema name.
SchemaDependentOps ==
    {"get_with_schema", "get_with_params", "get_with_params_and_schema"}

\* The last operation took a schema name that the client's manager does not
\* hold.
UnknownSchemaCalled ==
    /\ call.op \in SchemaDependentOps
    /\ client.schema_manager.some
    /\ call.name \notin DOMAIN client.schema_manager.v

\* C26: get_with_schema, get_with_params and get_with_params_and_schema,
\* called with a schema name the manager does not hold, fail with "Schema
\* '<name>' not found" before any HTTP request is sent.
C26_UnknownSchemaNoRequest ==
    UnknownSchemaCalled =>
        /\ call.sent = <<>>
        /\ ~call.res.ok
        /\ call.res.err = SchemaNotFound(call.name)

---------------------------------------------------------------------------
(* The URL an executor requests for a configured URL.                      *)

\* [x] enabled = true, url = <url>
EndpointAt(url) ==
    TTable(<<Entry("enabled", TBool(TRUE)), Entry("url", TStr(url))>>)

\* Documents with an enabled endpoint at each URL, with query parameters
\* and without, and a disabled endpoint.
UrlConfigs ==
    {TTable(<<Entry(<<"a">>, EndpointAt(url))>> \o q
                \o <<Entry(<<"b">>, DisabledEndpointTable)>>) :
        url \in UrlTexts,
        q \in {<<>>, <<Entry(<<"a", ".query_params">>, QueryTable)>>}}

\* APIExecutor::from_config_file on such a document, then the call of
\* execute_all.
InitSplit ==
    /\ \E config \in UrlConfigs : executor = from_config_file(config)
    /\ pc = "start"
    /\ idx = 0
    /\ requests = <<>>
    /\ output = <<>>
    /\ outcome = None
    /\ kind = Idle /\ base_url = Idle /\ built = Idle
    /\ schemas = Idle /\ ret = Idle
    /\ client = Idle /\ call = Idle
    /\ OffIdle

SpecSplit == InitSplit /\ [][Next]_vars

\* The query strings the executor may build for an endpoint, one for each
\* order in which the maps are iterated.
QueryStringsOf(endpoint) ==
    {build_query_string(executor.schema_manager, endpoint.schema_name,
                        endpoint.query_params, porder, qorder).v :
        porder \in Orders(DOMAIN endpoint.query_params),
        qorder \in QueryOrders(executor.schema_manager,
                               endpoint.schema_name)}

\* C27: the URL the executor requests for an endpoint is the configured URL
\* followed by the query string: RESTClient's build_url puts the two parts
\* of split_url together again, also for a URL without "/", one that ends
\* in "/", and one with several slashes around the last separator.
C27_SplitUrlRoundTrip ==
    \A i \in 1..Len(requests) :
        LET endpoint == executor.endpoints[1]
            parts == split_url(endpoint.url)
        IN /\ RestBuildUrl(parts.base_url, parts.endpoint) = endpoint.url
           /\ \E query_string \in QueryStringsOf(endpoint) :
                requests[i] = endpoint.url \o query_string

---------------------------------------------------------------------------
(* The parameter names of a query string.                                  *)

\* The parameter names of the pairs of a query string, in order.
PairNames(q) == [i \in 1..Len(Segments(q)) |-> Segments(q)[i][1]]

\* C28: in every string build_query_string returns, each parameter name
\* appears in at most one pair; a parameter the caller supplies is not
\* emitted again with its default.
C28_NoDuplicateNames ==
    (Built /\ ret.res.ok) =>
        LET names == PairNames(ret.res.v)
        IN \A i, j \in 1..Len(names) : names[i] = names[j] => i = j

\* C28 witness: the caller supplied limit, which the schema declares with a
\* default, and the string holds limit once, with the caller's value, beside
\* the default of ordering.
C28_Witness ==
    /\ Built /\ ret.res.ok
    /\ "limit" \in DOMAIN ret.params
    /\ "limit" \in DOMAIN schemas[ret.name].query_params
    /\ schemas[ret.name].query_params["limit"].default.some
    /\ Len(PairNames(ret.res.v)) = 2
    /\ \E i \in 1..2 :
        Segments(ret.res.v)[i]
            = <<"limit", "=">> \o UrlEncode(ret.params["limit"])

---------------------------------------------------------------------------
(* Migration::up: the order of the create steps.                           *)

\* A step creates tables and indexes only on what exists before it: the
\* tables a new table's foreign keys reference, and the table of a new
\* index.
CreatesInOrder ==
    /\ \A t \in database'.tables \ database.tables :
            t.refs \subseteq TableNames(database)
    /\ \A i \in database'.indexes \ database.indexes :
            i.on \in TableNames(database)

\* up has stopped because a statement referred to a table that does not
\* exist.
UpMissedTable ==
    /\ step.op = "up"
    /\ step.result.some
    /\ ~step.result.v.ok
    /\ step.result.v.err[1]
        \in {"referenced table does not exist", "no such table"}

\* C29: up creates every table only after all tables its foreign keys
\* reference (authors before author_socials; authors, launches, events,
\* articles, blogs and reports before the join tables that reference them)
\* and every index only after its table, so that no create step refers to
\* a table that does not yet exist.
C29_UpOrder ==
    /\ [][CreatesInOrder]_vars
    /\ []~UpMissedTable

\* C29 witness: an up that created the 16 tables and the 3 indexes has
\* returned.
C29_Witness ==
    /\ step.op = "up"
    /\ step.result.some
    /\ step.result.v.ok
    /\ Cardinality(database.tables) = 16
    /\ Cardinality(database.indexes) = 3
    /\ \E t \in database.tables :
            t.name = "report_events" /\ t.refs = {"reports", "events"}

---------------------------------------------------------------------------
(* Migration::down after an up that stopped half way.                      *)

\* The tables the first k create statements of up make.
UpPrefix(k) == {UpStatements[i].name : i \in 1..k}

\* The database holds what an up leaves that stopped with an error after
\* some, not all, of its tables.
LeftByPartialUp ==
    /\ database.indexes = {}
    /\ \E k \in 1..15 : TableNames(database) = UpPrefix(k)

\* down has stopped, and not because the connection was lost.
DownStopped ==
    /\ step.op = "down"
    /\ step.result.some
    /\ step.result.v.ok \/ step.result.v.err[1] # "connection lost"

\* C30: when up has stopped with an error after creating only a prefix of
\* its tables, a down run afterwards succeeds and removes every table up
\* created; it does not fail or stop early because a table it drops was
\* never created.  So a down that has stopped never leaves the database as
\* the partial up left it.
C30_DownAfterPartialUp ==
    (DownStopped /\ LeftByPartialUp) =>
        /\ step.result.v.ok
        /\ TableNames(database) = {}

=============================================================================
